---- MODULE Spec2Model ----
(***************************************************************************)
(* vocabvault: the Japanese classification and conjugation engine, and the *)
(* in-memory rate limiter.                                                 *)
(*                                                                         *)
(*   detectVerbType, generateConjugations, generate*AdjectiveConjugations  *)
(*       src/src/lib/configuration.ts                                      *)
(*   detectCategory                                                        *)
(*       src/src/app/api/dictionary/lookup/route.ts                        *)
(*   WordDetailDialog (the caller that dispatches on category)             *)
(*       src/unnamed/part_016                                              *)
(*   createInMemoryRateLimiter (specification SpecLimiter)                 *)
(*       src/src/lib/configuration.ts                                      *)
(*   checkRateLimit, checkRateLimitWithClient                              *)
(*       src/src/lib/rate-limit.ts                                         *)
(*   isAIFeatureEnabled, getAllAIFeatureStatuses, useAIFeatures            *)
(*       src/src/lib/ai-features.ts, src/src/lib/configuration.ts          *)
(*   WordForm (specification SpecForm)                                     *)
(*       src/unnamed/part_018                                              *)
(*   useUserRole (specification SpecHook)                                  *)
(*       src/src/hooks/use-user-role.ts                                    *)
(*                                                                         *)
(* A JavaScript string is a sequence of one-character tokens.  ASCII       *)
(* characters are themselves ("v", "5", "-", " ").  A kana is written by   *)
(* its romanisation ("no" is U+306E, "ru" is U+308B, "xtsu" is the small   *)
(* tsu U+3063, "di" is U+3062); the two kanji the code names are           *)
(* "KANJI_IKU" (U+884C) and "KANJI_KURU" (U+6765).  Every token is one     *)
(* UTF-16 code unit in the source, so slice/endsWith/includes on code      *)
(* units are slice/endsWith/includes on tokens.                            *)
(***************************************************************************)
EXTENDS Integers, Sequences, FiniteSets, TLC

VARIABLES call, ret, tracker, now, windowMs, maxRequests, calls,
          formData, selectedResult,
          hookState, isMounted, mounted, fetches, lastUpdate

vars == <<call, ret, tracker, now, windowMs, maxRequests, calls,
          formData, selectedResult,
          hookState, isMounted, mounted, fetches, lastUpdate>>

(* The state of one createInMemoryRateLimiter instance: its Map, the       *)
(* clock Date.now() reads, its two parameters, and the callers' own count  *)
(* of the check calls they made.                                           *)
limiter == <<tracker, now, windowMs, maxRequests, calls>>

(* The state of one WordForm: the form's fields and the lookup result that *)
(* is selected (no element: none).                                         *)
wordForm == <<formData, selectedResult>>

(* One component that uses useUserRole: the hook's useState values, the    *)
(* ref isMounted.current, whether the component is mounted, the runs of    *)
(* fetchRole started so far, and which run made the last state update.     *)
userRole == <<hookState, isMounted, mounted, fetches, lastUpdate>>

(* JavaScript null and undefined, and the value "no call has been made". *)
NULL == "null"
UNDEFINED == "undefined"
NoCall == [fn |-> "none"]

(***************************************************************************)
(* String primitives of the runtime, as the code uses them.                *)
(***************************************************************************)

(* s.slice(0, -1) *)
sliceInit(s) == IF Len(s) = 0 THEN <<>> ELSE SubSeq(s, 1, Len(s) - 1)

(* s.slice(-1) *)
sliceLast(s) == IF Len(s) = 0 THEN <<>> ELSE <<s[Len(s)]>>

(* s.endsWith(t) *)
endsWith(s, t) ==
    /\ Len(t) <= Len(s)
    /\ \A i \in 1..Len(t) : s[Len(s) - Len(t) + i] = t[i]

(* s.includes(t) *)
includes(s, t) ==
    \E k \in 0..(Len(s) - Len(t)) : \A i \in 1..Len(t) : s[k + i] = t[i]

(* The upper-case letters and their lower-case forms. *)
lowerOf ==
    [ A |-> "a", B |-> "b", C |-> "c", D |-> "d", E |-> "e", F |-> "f", G |-> "g",
      H |-> "h", I |-> "i", J |-> "j", K |-> "k", L |-> "l", M |-> "m", N |-> "n",
      O |-> "o", P |-> "p", Q |-> "q", R |-> "r", S |-> "s", T |-> "t", U |-> "u",
      V |-> "v", W |-> "w", X |-> "x", Y |-> "y", Z |-> "z" ]

lowerChar(c) == IF c \in DOMAIN lowerOf THEN lowerOf[c] ELSE c

(* s.toLowerCase() *)
toLowerCase(s) == [i \in 1..Len(s) |-> lowerChar(s[i])]

(* tags.join(" ") *)
RECURSIVE join(_)
join(tags) ==
    IF Len(tags) = 0 THEN <<>>
    ELSE IF Len(tags) = 1 THEN tags[1]
    ELSE tags[1] \o <<" ">> \o join(Tail(tags))

(***************************************************************************)
(* detectVerbType, configuration.ts:4-82                                   *)
(***************************************************************************)

(* The list without U+3062 and U+308A. *)
ichiSounds_short ==
    <<"i", "e", "ki", "ke", "gi", "ge", "shi", "se", "ji", "ze", "chi", "te",
      "de", "ni", "ne", "hi", "he", "bi", "be", "pi", "pe", "mi", "me", "re">>

ichiSounds ==
    <<"i", "e", "ki", "ke", "gi", "ge", "shi", "se", "ji", "ze", "chi", "te",
      "di", "de", "ni", "ne", "hi", "he", "bi", "be", "pi", "pe", "mi", "me",
      "ri", "re">>

(* The tag checks in the order detectCategory makes them. *)
detectVerbType_ichidanFirst(hiragana, tags) ==
    LET tagStr == toLowerCase(join(tags))
        stem == sliceInit(hiragana)
        lastChar == sliceLast(stem)
    IN  IF includes(tagStr, <<"i","c","h","i","d","a","n">>)
           \/ includes(tagStr, <<"v","1">>)
        THEN "ichidan"
        ELSE IF includes(tagStr, <<"g","o","d","a","n">>) \/ includes(tagStr, <<"v","5">>)
        THEN "godan"
        ELSE IF includes(tagStr, <<"s","u","r","u">>) \/ includes(tagStr, <<"v","s">>)
        THEN "suru"
        ELSE IF includes(tagStr, <<"k","u","r","u">>) \/ includes(tagStr, <<"v","k">>)
        THEN "kuru"
        ELSE IF endsWith(hiragana, <<"ru">>)
        THEN IF \E n \in 1..Len(ichiSounds) :
                    \/ includes(lastChar, <<ichiSounds[n]>>)
                    \/ endsWith(stem, <<ichiSounds[n]>>)
             THEN "ichidan"
             ELSE "godan"
        ELSE IF \/ endsWith(hiragana, <<"u">>)
                \/ endsWith(hiragana, <<"ku">>)
                \/ endsWith(hiragana, <<"su">>)
                \/ endsWith(hiragana, <<"tsu">>)
                \/ endsWith(hiragana, <<"nu">>)
                \/ endsWith(hiragana, <<"bu">>)
                \/ endsWith(hiragana, <<"mu">>)
                \/ endsWith(hiragana, <<"gu">>)
        THEN "godan"
        ELSE IF endsWith(hiragana, <<"su", "ru">>)
        THEN "suru"
        ELSE IF hiragana = <<"ku", "ru">> \/ hiragana = <<"KANJI_KURU", "ru">>
        THEN "kuru"
        ELSE NULL

(* The ending test without U+3050 ("gu"). *)
detectVerbType_missingGu(hiragana, tags) ==
    LET tagStr == toLowerCase(join(tags))
        stem == sliceInit(hiragana)
        lastChar == sliceLast(stem)
    IN  IF includes(tagStr, <<"g","o","d","a","n">>) \/ includes(tagStr, <<"v","5">>)
        THEN "godan"
        ELSE IF includes(tagStr, <<"i","c","h","i","d","a","n">>)
                \/ includes(tagStr, <<"v","1">>)
        THEN "ichidan"
        ELSE IF includes(tagStr, <<"s","u","r","u">>) \/ includes(tagStr, <<"v","s">>)
        THEN "suru"
        ELSE IF includes(tagStr, <<"k","u","r","u">>) \/ includes(tagStr, <<"v","k">>)
        THEN "kuru"
        ELSE IF endsWith(hiragana, <<"ru">>)
        THEN IF \E n \in 1..Len(ichiSounds) :
                    \/ includes(lastChar, <<ichiSounds[n]>>)
                    \/ endsWith(stem, <<ichiSounds[n]>>)
             THEN "ichidan"
             ELSE "godan"
        ELSE IF \/ endsWith(hiragana, <<"u">>)
                \/ endsWith(hiragana, <<"ku">>)
                \/ endsWith(hiragana, <<"su">>)
                \/ endsWith(hiragana, <<"tsu">>)
                \/ endsWith(hiragana, <<"nu">>)
                \/ endsWith(hiragana, <<"bu">>)
                \/ endsWith(hiragana, <<"mu">>)
        THEN "godan"
        ELSE IF endsWith(hiragana, <<"su", "ru">>)
        THEN "suru"
        ELSE IF hiragana = <<"ku", "ru">> \/ hiragana = <<"KANJI_KURU", "ru">>
        THEN "kuru"
        ELSE NULL

detectVerbType(hiragana, tags) ==
    LET tagStr == toLowerCase(join(tags))
        stem == sliceInit(hiragana)
        lastChar == sliceLast(stem)
    IN  IF includes(tagStr, <<"g","o","d","a","n">>) \/ includes(tagStr, <<"v","5">>)
        THEN "godan"
        ELSE IF includes(tagStr, <<"i","c","h","i","d","a","n">>)
                \/ includes(tagStr, <<"v","1">>)
        THEN "ichidan"
        ELSE IF includes(tagStr, <<"s","u","r","u">>) \/ includes(tagStr, <<"v","s">>)
        THEN "suru"
        ELSE IF includes(tagStr, <<"k","u","r","u">>) \/ includes(tagStr, <<"v","k">>)
        THEN "kuru"
        ELSE IF endsWith(hiragana, <<"ru">>)
        THEN IF \E n \in 1..Len(ichiSounds) :
                    \/ includes(lastChar, <<ichiSounds[n]>>)
                    \/ endsWith(stem, <<ichiSounds[n]>>)
             THEN "ichidan"
             ELSE "godan"
        ELSE IF \/ endsWith(hiragana, <<"u">>)
                \/ endsWith(hiragana, <<"ku">>)
                \/ endsWith(hiragana, <<"su">>)
                \/ endsWith(hiragana, <<"tsu">>)
                \/ endsWith(hiragana, <<"nu">>)
                \/ endsWith(hiragana, <<"bu">>)
                \/ endsWith(hiragana, <<"mu">>)
                \/ endsWith(hiragana, <<"gu">>)
        THEN "godan"
        ELSE IF endsWith(hiragana, <<"su", "ru">>)
        THEN "suru"
        ELSE IF hiragana = <<"ku", "ru">> \/ hiragana = <<"KANJI_KURU", "ru">>
        THEN "kuru"
        ELSE NULL

(***************************************************************************)
(* detectCategory, route.ts:190-237.  A result without verbType has the    *)
(* property undefined.                                                     *)
(***************************************************************************)

(* The generic "verb" test made right after the four verb types. *)
detectCategory_verbBeforeCategories(partsOfSpeech) ==
    LET pos == toLowerCase(join(partsOfSpeech))
        has(t) == includes(pos, t)
    IN  IF has(<<"i","c","h","i","d","a","n">>) \/ has(<<"v","1">>)
        THEN [category |-> "verb", verbType |-> "ichidan"]
        ELSE IF has(<<"g","o","d","a","n">>) \/ has(<<"v","5">>)
        THEN [category |-> "verb", verbType |-> "godan"]
        ELSE IF has(<<"s","u","r","u">>) \/ has(<<"v","s","-">>)
        THEN [category |-> "verb", verbType |-> "suru"]
        ELSE IF has(<<"k","u","r","u">>) \/ has(<<"v","k">>)
        THEN [category |-> "verb", verbType |-> "kuru"]
        ELSE IF has(<<"v","e","r","b">>)
        THEN [category |-> "verb", verbType |-> "godan"]
        ELSE IF has(<<"c","o","u","n","t","e","r">>)
        THEN [category |-> "counter", verbType |-> UNDEFINED]
        ELSE IF has(<<"a","d","v","e","r","b">>)
        THEN [category |-> "adverb", verbType |-> UNDEFINED]
        ELSE IF has(<<"p","a","r","t","i","c","l","e">>)
        THEN [category |-> "particle", verbType |-> UNDEFINED]
        ELSE IF has(<<"e","x","p","r","e","s","s","i","o","n">>)
        THEN [category |-> "expression", verbType |-> UNDEFINED]
        ELSE IF has(<<"i","-","a","d","j","e","c","t","i","v","e">>)
                \/ has(<<"a","d","j","-","i">>)
        THEN [category |-> "adjective-i", verbType |-> UNDEFINED]
        ELSE IF has(<<"n","a","-","a","d","j","e","c","t","i","v","e">>)
                \/ has(<<"a","d","j","-","n","a">>)
        THEN [category |-> "adjective-na", verbType |-> UNDEFINED]
        ELSE IF has(<<"n","o","u","n">>)
        THEN [category |-> "noun", verbType |-> UNDEFINED]
        ELSE [category |-> "other", verbType |-> UNDEFINED]

(* The generic "verb" rule returning no verb type. *)
detectCategory_genericVerbUntyped(partsOfSpeech) ==
    LET pos == toLowerCase(join(partsOfSpeech))
        has(t) == includes(pos, t)
    IN  IF has(<<"i","c","h","i","d","a","n">>) \/ has(<<"v","1">>)
        THEN [category |-> "verb", verbType |-> "ichidan"]
        ELSE IF has(<<"g","o","d","a","n">>) \/ has(<<"v","5">>)
        THEN [category |-> "verb", verbType |-> "godan"]
        ELSE IF has(<<"s","u","r","u">>) \/ has(<<"v","s","-">>)
        THEN [category |-> "verb", verbType |-> "suru"]
        ELSE IF has(<<"k","u","r","u">>) \/ has(<<"v","k">>)
        THEN [category |-> "verb", verbType |-> "kuru"]
        ELSE IF has(<<"c","o","u","n","t","e","r">>)
        THEN [category |-> "counter", verbType |-> UNDEFINED]
        ELSE IF has(<<"a","d","v","e","r","b">>)
        THEN [category |-> "adverb", verbType |-> UNDEFINED]
        ELSE IF has(<<"p","a","r","t","i","c","l","e">>)
        THEN [category |-> "particle", verbType |-> UNDEFINED]
        ELSE IF has(<<"e","x","p","r","e","s","s","i","o","n">>)
        THEN [category |-> "expression", verbType |-> UNDEFINED]
        ELSE IF has(<<"i","-","a","d","j","e","c","t","i","v","e">>)
                \/ has(<<"a","d","j","-","i">>)
        THEN [category |-> "adjective-i", verbType |-> UNDEFINED]
        ELSE IF has(<<"n","a","-","a","d","j","e","c","t","i","v","e">>)
                \/ has(<<"a","d","j","-","n","a">>)
        THEN [category |-> "adjective-na", verbType |-> UNDEFINED]
        ELSE IF has(<<"n","o","u","n">>)
        THEN [category |-> "noun", verbType |-> UNDEFINED]
        ELSE IF has(<<"v","e","r","b">>)
        THEN [category |-> "verb", verbType |-> UNDEFINED]
        ELSE [category |-> "other", verbType |-> UNDEFINED]

detectCategory(partsOfSpeech) ==
    LET pos == toLowerCase(join(partsOfSpeech))
        has(t) == includes(pos, t)
    IN  IF has(<<"i","c","h","i","d","a","n">>) \/ has(<<"v","1">>)
        THEN [category |-> "verb", verbType |-> "ichidan"]
        ELSE IF has(<<"g","o","d","a","n">>) \/ has(<<"v","5">>)
        THEN [category |-> "verb", verbType |-> "godan"]
        ELSE IF has(<<"s","u","r","u">>) \/ has(<<"v","s","-">>)
        THEN [category |-> "verb", verbType |-> "suru"]
        ELSE IF has(<<"k","u","r","u">>) \/ has(<<"v","k">>)
        THEN [category |-> "verb", verbType |-> "kuru"]
        ELSE IF has(<<"c","o","u","n","t","e","r">>)
        THEN [category |-> "counter", verbType |-> UNDEFINED]
        ELSE IF has(<<"a","d","v","e","r","b">>)
        THEN [category |-> "adverb", verbType |-> UNDEFINED]
        ELSE IF has(<<"p","a","r","t","i","c","l","e">>)
        THEN [category |-> "particle", verbType |-> UNDEFINED]
        ELSE IF has(<<"e","x","p","r","e","s","s","i","o","n">>)
        THEN [category |-> "expression", verbType |-> UNDEFINED]
        ELSE IF has(<<"i","-","a","d","j","e","c","t","i","v","e">>)
                \/ has(<<"a","d","j","-","i">>)
        THEN [category |-> "adjective-i", verbType |-> UNDEFINED]
        ELSE IF has(<<"n","a","-","a","d","j","e","c","t","i","v","e">>)
                \/ has(<<"a","d","j","-","n","a">>)
        THEN [category |-> "adjective-na", verbType |-> UNDEFINED]
        ELSE IF has(<<"n","o","u","n">>)
        THEN [category |-> "noun", verbType |-> UNDEFINED]
        ELSE IF has(<<"v","e","r","b">>)
        THEN [category |-> "verb", verbType |-> "godan"]
        ELSE [category |-> "other", verbType |-> UNDEFINED]

(***************************************************************************)
(* The conjugation generators, configuration.ts:85-339.  A table is a      *)
(* sequence of VerbConjugation records (types.ts:17-22).                   *)
(***************************************************************************)

VC(form, japanese, romaji, usage) ==
    [form |-> form, japanese |-> japanese, romaji |-> romaji, usage |-> usage]

generateIchidanConjugations(stem) ==
    << VC("Dictionary", stem \o <<"ru">>, "", "Plain present/future"),
       VC("Masu", stem \o <<"ma","su">>, "", "Polite present/future"),
       VC("Te-form", stem \o <<"te">>, "", "Connecting, requests"),
       VC("Ta-form", stem \o <<"ta">>, "", "Plain past"),
       VC("Mashita", stem \o <<"ma","shi","ta">>, "", "Polite past"),
       VC("Nai-form", stem \o <<"na","i">>, "", "Plain negative"),
       VC("Masen", stem \o <<"ma","se","n">>, "", "Polite negative"),
       VC("Nakatta", stem \o <<"na","ka","xtsu","ta">>, "", "Plain past negative"),
       VC("Potential", stem \o <<"ra","re","ru">>, "", "Can do"),
       VC("Passive", stem \o <<"ra","re","ru">>, "", "Is done"),
       VC("Causative", stem \o <<"sa","se","ru">>, "", "Make/let do"),
       VC("Imperative", stem \o <<"ro">>, "", "Command"),
       VC("Volitional", stem \o <<"yo","u">>, "", "Let's do"),
       VC("Conditional", stem \o <<"re","ba">>, "", "If"),
       VC("Tara-form", stem \o <<"ta","ra">>, "", "If/when") >>

Row(masu, te, ta, nai, potential, volitional, imperative, conditional) ==
    [masu |-> masu, te |-> te, ta |-> ta, nai |-> nai, potential |-> potential,
     volitional |-> volitional, imperative |-> imperative,
     conditional |-> conditional]

(* The table with the "mu" row's te and ta copied from the "tsu" row. *)
mappings_muRowMiscopied ==
    [ u   |-> Row(<<"i">>,   <<"xtsu","te">>, <<"xtsu","ta">>, <<"wa">>, <<"e">>,  <<"o">>,  <<"e">>,  <<"e">>),
      ku  |-> Row(<<"ki">>,  <<"i","te">>,    <<"i","ta">>,    <<"ka">>, <<"ke">>, <<"ko">>, <<"ke">>, <<"ke">>),
      gu  |-> Row(<<"gi">>,  <<"i","de">>,    <<"i","da">>,    <<"ga">>, <<"ge">>, <<"go">>, <<"ge">>, <<"ge">>),
      su  |-> Row(<<"shi">>, <<"shi","te">>,  <<"shi","ta">>,  <<"sa">>, <<"se">>, <<"so">>, <<"se">>, <<"se">>),
      tsu |-> Row(<<"chi">>, <<"xtsu","te">>, <<"xtsu","ta">>, <<"ta">>, <<"te">>, <<"to">>, <<"te">>, <<"te">>),
      nu  |-> Row(<<"ni">>,  <<"n","de">>,    <<"n","da">>,    <<"na">>, <<"ne">>, <<"no">>, <<"ne">>, <<"ne">>),
      bu  |-> Row(<<"bi">>,  <<"n","de">>,    <<"n","da">>,    <<"ba">>, <<"be">>, <<"bo">>, <<"be">>, <<"be">>),
      mu  |-> Row(<<"mi">>,  <<"xtsu","te">>, <<"xtsu","ta">>,    <<"ma">>, <<"me">>, <<"mo">>, <<"me">>, <<"me">>),
      ru  |-> Row(<<"ri">>,  <<"xtsu","te">>, <<"xtsu","ta">>, <<"ra">>, <<"re">>, <<"ro">>, <<"re">>, <<"re">>) ]

(* The godan table keyed by the final character, configuration.ts:132-235. *)
mappings ==
    [ u   |-> Row(<<"i">>,   <<"xtsu","te">>, <<"xtsu","ta">>, <<"wa">>, <<"e">>,  <<"o">>,  <<"e">>,  <<"e">>),
      ku  |-> Row(<<"ki">>,  <<"i","te">>,    <<"i","ta">>,    <<"ka">>, <<"ke">>, <<"ko">>, <<"ke">>, <<"ke">>),
      gu  |-> Row(<<"gi">>,  <<"i","de">>,    <<"i","da">>,    <<"ga">>, <<"ge">>, <<"go">>, <<"ge">>, <<"ge">>),
      su  |-> Row(<<"shi">>, <<"shi","te">>,  <<"shi","ta">>,  <<"sa">>, <<"se">>, <<"so">>, <<"se">>, <<"se">>),
      tsu |-> Row(<<"chi">>, <<"xtsu","te">>, <<"xtsu","ta">>, <<"ta">>, <<"te">>, <<"to">>, <<"te">>, <<"te">>),
      nu  |-> Row(<<"ni">>,  <<"n","de">>,    <<"n","da">>,    <<"na">>, <<"ne">>, <<"no">>, <<"ne">>, <<"ne">>),
      bu  |-> Row(<<"bi">>,  <<"n","de">>,    <<"n","da">>,    <<"ba">>, <<"be">>, <<"bo">>, <<"be">>, <<"be">>),
      mu  |-> Row(<<"mi">>,  <<"n","de">>,    <<"n","da">>,    <<"ma">>, <<"me">>, <<"mo">>, <<"me">>, <<"me">>),
      ru  |-> Row(<<"ri">>,  <<"xtsu","te">>, <<"xtsu","ta">>, <<"ra">>, <<"re">>, <<"ro">>, <<"re">>, <<"re">>) ]

(* The special case tested with endsWith instead of equality. *)
generateGodanConjugations_ikuBySuffix(hiragana) ==
    LET ending == sliceLast(hiragana)
        stem == sliceInit(hiragana)
        map == IF Len(ending) = 1 /\ ending[1] \in DOMAIN mappings
               THEN mappings[ending[1]]
               ELSE mappings["ru"]
        isIku == endsWith(hiragana, <<"i","ku">>) \/ endsWith(hiragana, <<"KANJI_IKU","ku">>)
        teForm == IF isIku THEN stem \o <<"xtsu","te">> ELSE stem \o map.te
        taForm == IF isIku THEN stem \o <<"xtsu","ta">> ELSE stem \o map.ta
    IN
    << VC("Dictionary", hiragana, "", "Plain present/future"),
       VC("Masu", stem \o map.masu \o <<"ma","su">>, "", "Polite present/future"),
       VC("Te-form", teForm, "", "Connecting, requests"),
       VC("Ta-form", taForm, "", "Plain past"),
       VC("Mashita", stem \o map.masu \o <<"ma","shi","ta">>, "", "Polite past"),
       VC("Nai-form", stem \o map.nai \o <<"na","i">>, "", "Plain negative"),
       VC("Masen", stem \o map.masu \o <<"ma","se","n">>, "", "Polite negative"),
       VC("Nakatta", stem \o map.nai \o <<"na","ka","xtsu","ta">>, "", "Plain past negative"),
       VC("Potential", stem \o map.potential \o <<"ru">>, "", "Can do"),
       VC("Passive", stem \o map.nai \o <<"re","ru">>, "", "Is done"),
       VC("Causative", stem \o map.nai \o <<"se","ru">>, "", "Make/let do"),
       VC("Imperative", stem \o map.imperative, "", "Command"),
       VC("Volitional", stem \o map.volitional \o <<"u">>, "", "Let's do"),
       VC("Conditional", stem \o map.conditional \o <<"ba">>, "", "If"),
       VC("Tara-form", taForm \o <<"ra">>, "", "If/when") >>

(* generateGodanConjugations whose default row is the first row of the table. *)
generateGodanConjugations_fallbackToU(hiragana) ==
    LET ending == sliceLast(hiragana)
        stem == sliceInit(hiragana)
        map == IF Len(ending) = 1 /\ ending[1] \in DOMAIN mappings
               THEN mappings[ending[1]]
               ELSE mappings["u"]
        isIku == hiragana = <<"i","ku">> \/ hiragana = <<"KANJI_IKU","ku">>
        teForm == IF isIku THEN stem \o <<"xtsu","te">> ELSE stem \o map.te
        taForm == IF isIku THEN stem \o <<"xtsu","ta">> ELSE stem \o map.ta
    IN
    << VC("Dictionary", hiragana, "", "Plain present/future"),
       VC("Masu", stem \o map.masu \o <<"ma","su">>, "", "Polite present/future"),
       VC("Te-form", teForm, "", "Connecting, requests"),
       VC("Ta-form", taForm, "", "Plain past"),
       VC("Mashita", stem \o map.masu \o <<"ma","shi","ta">>, "", "Polite past"),
       VC("Nai-form", stem \o map.nai \o <<"na","i">>, "", "Plain negative"),
       VC("Masen", stem \o map.masu \o <<"ma","se","n">>, "", "Polite negative"),
       VC("Nakatta", stem \o map.nai \o <<"na","ka","xtsu","ta">>, "", "Plain past negative"),
       VC("Potential", stem \o map.potential \o <<"ru">>, "", "Can do"),
       VC("Passive", stem \o map.nai \o <<"re","ru">>, "", "Is done"),
       VC("Causative", stem \o map.nai \o <<"se","ru">>, "", "Make/let do"),
       VC("Imperative", stem \o map.imperative, "", "Command"),
       VC("Volitional", stem \o map.volitional \o <<"u">>, "", "Let's do"),
       VC("Conditional", stem \o map.conditional \o <<"ba">>, "", "If"),
       VC("Tara-form", taForm \o <<"ra">>, "", "If/when") >>

generateGodanConjugations(hiragana) ==
    LET ending == sliceLast(hiragana)
        stem == sliceInit(hiragana)
        map == IF Len(ending) = 1 /\ ending[1] \in DOMAIN mappings
               THEN mappings[ending[1]]
               ELSE mappings["ru"]
        isIku == hiragana = <<"i","ku">> \/ hiragana = <<"KANJI_IKU","ku">>
        teForm == IF isIku THEN stem \o <<"xtsu","te">> ELSE stem \o map.te
        taForm == IF isIku THEN stem \o <<"xtsu","ta">> ELSE stem \o map.ta
    IN
    << VC("Dictionary", hiragana, "", "Plain present/future"),
       VC("Masu", stem \o map.masu \o <<"ma","su">>, "", "Polite present/future"),
       VC("Te-form", teForm, "", "Connecting, requests"),
       VC("Ta-form", taForm, "", "Plain past"),
       VC("Mashita", stem \o map.masu \o <<"ma","shi","ta">>, "", "Polite past"),
       VC("Nai-form", stem \o map.nai \o <<"na","i">>, "", "Plain negative"),
       VC("Masen", stem \o map.masu \o <<"ma","se","n">>, "", "Polite negative"),
       VC("Nakatta", stem \o map.nai \o <<"na","ka","xtsu","ta">>, "", "Plain past negative"),
       VC("Potential", stem \o map.potential \o <<"ru">>, "", "Can do"),
       VC("Passive", stem \o map.nai \o <<"re","ru">>, "", "Is done"),
       VC("Causative", stem \o map.nai \o <<"se","ru">>, "", "Make/let do"),
       VC("Imperative", stem \o map.imperative, "", "Command"),
       VC("Volitional", stem \o map.volitional \o <<"u">>, "", "Let's do"),
       VC("Conditional", stem \o map.conditional \o <<"ba">>, "", "If"),
       VC("Tara-form", taForm \o <<"ra">>, "", "If/when") >>

(* The stem used as it is, its trailing U+3059 kept. *)
generateSuruConjugations_noStrip(stem) ==
    LET base == stem
        prefix == base
    IN
    << VC("Dictionary", prefix \o <<"su","ru">>, "", "Plain present/future"),
       VC("Masu", prefix \o <<"shi","ma","su">>, "", "Polite present/future"),
       VC("Te-form", prefix \o <<"shi","te">>, "", "Connecting, requests"),
       VC("Ta-form", prefix \o <<"shi","ta">>, "", "Plain past"),
       VC("Mashita", prefix \o <<"shi","ma","shi","ta">>, "", "Polite past"),
       VC("Nai-form", prefix \o <<"shi","na","i">>, "", "Plain negative"),
       VC("Masen", prefix \o <<"shi","ma","se","n">>, "", "Polite negative"),
       VC("Nakatta", prefix \o <<"shi","na","ka","xtsu","ta">>, "", "Plain past negative"),
       VC("Potential", prefix \o <<"de","ki","ru">>, "", "Can do"),
       VC("Passive", prefix \o <<"sa","re","ru">>, "", "Is done"),
       VC("Causative", prefix \o <<"sa","se","ru">>, "", "Make/let do"),
       VC("Imperative", prefix \o <<"shi","ro">>, "", "Command"),
       VC("Volitional", prefix \o <<"shi","yo","u">>, "", "Let's do"),
       VC("Conditional", prefix \o <<"su","re","ba">>, "", "If"),
       VC("Tara-form", prefix \o <<"shi","ta","ra">>, "", "If/when") >>

generateSuruConjugations(stem) ==
    LET base == IF endsWith(stem, <<"su">>) THEN sliceInit(stem) ELSE stem
        prefix == base
    IN
    << VC("Dictionary", prefix \o <<"su","ru">>, "", "Plain present/future"),
       VC("Masu", prefix \o <<"shi","ma","su">>, "", "Polite present/future"),
       VC("Te-form", prefix \o <<"shi","te">>, "", "Connecting, requests"),
       VC("Ta-form", prefix \o <<"shi","ta">>, "", "Plain past"),
       VC("Mashita", prefix \o <<"shi","ma","shi","ta">>, "", "Polite past"),
       VC("Nai-form", prefix \o <<"shi","na","i">>, "", "Plain negative"),
       VC("Masen", prefix \o <<"shi","ma","se","n">>, "", "Polite negative"),
       VC("Nakatta", prefix \o <<"shi","na","ka","xtsu","ta">>, "", "Plain past negative"),
       VC("Potential", prefix \o <<"de","ki","ru">>, "", "Can do"),
       VC("Passive", prefix \o <<"sa","re","ru">>, "", "Is done"),
       VC("Causative", prefix \o <<"sa","se","ru">>, "", "Make/let do"),
       VC("Imperative", prefix \o <<"shi","ro">>, "", "Command"),
       VC("Volitional", prefix \o <<"shi","yo","u">>, "", "Let's do"),
       VC("Conditional", prefix \o <<"su","re","ba">>, "", "If"),
       VC("Tara-form", prefix \o <<"shi","ta","ra">>, "", "If/when") >>

(* The kuru table with its Tara-form built on the te-form. *)
generateKuruConjugations_taraFromTe ==
    << VC("Dictionary", <<"ku","ru">>, "kuru", "Plain present/future"),
       VC("Masu", <<"ki","ma","su">>, "kimasu", "Polite present/future"),
       VC("Te-form", <<"ki","te">>, "kite", "Connecting, requests"),
       VC("Ta-form", <<"ki","ta">>, "kita", "Plain past"),
       VC("Mashita", <<"ki","ma","shi","ta">>, "kimashita", "Polite past"),
       VC("Nai-form", <<"ko","na","i">>, "konai", "Plain negative"),
       VC("Masen", <<"ki","ma","se","n">>, "kimasen", "Polite negative"),
       VC("Nakatta", <<"ko","na","ka","xtsu","ta">>, "konakatta", "Plain past negative"),
       VC("Potential", <<"ko","ra","re","ru">>, "korareru", "Can do"),
       VC("Passive", <<"ko","ra","re","ru">>, "korareru", "Is done"),
       VC("Causative", <<"ko","sa","se","ru">>, "kosaseru", "Make/let do"),
       VC("Imperative", <<"ko","i">>, "koi", "Command"),
       VC("Volitional", <<"ko","yo","u">>, "koyou", "Let's do"),
       VC("Conditional", <<"ku","re","ba">>, "kureba", "If"),
       VC("Tara-form", <<"ki","te","ra">>, "kitera", "If/when") >>

generateKuruConjugations ==
    << VC("Dictionary", <<"ku","ru">>, "kuru", "Plain present/future"),
       VC("Masu", <<"ki","ma","su">>, "kimasu", "Polite present/future"),
       VC("Te-form", <<"ki","te">>, "kite", "Connecting, requests"),
       VC("Ta-form", <<"ki","ta">>, "kita", "Plain past"),
       VC("Mashita", <<"ki","ma","shi","ta">>, "kimashita", "Polite past"),
       VC("Nai-form", <<"ko","na","i">>, "konai", "Plain negative"),
       VC("Masen", <<"ki","ma","se","n">>, "kimasen", "Polite negative"),
       VC("Nakatta", <<"ko","na","ka","xtsu","ta">>, "konakatta", "Plain past negative"),
       VC("Potential", <<"ko","ra","re","ru">>, "korareru", "Can do"),
       VC("Passive", <<"ko","ra","re","ru">>, "korareru", "Is done"),
       VC("Causative", <<"ko","sa","se","ru">>, "kosaseru", "Make/let do"),
       VC("Imperative", <<"ko","i">>, "koi", "Command"),
       VC("Volitional", <<"ko","yo","u">>, "koyou", "Let's do"),
       VC("Conditional", <<"ku","re","ba">>, "kureba", "If"),
       VC("Tara-form", <<"ki","ta","ra">>, "kitara", "If/when") >>

(* The kuru type conjugated from the reading, as a godan verb. *)
generateConjugations_kuruAsGodan(hiragana, verbType) ==
    LET stem == sliceInit(hiragana)
    IN  IF verbType = "ichidan" THEN generateIchidanConjugations(stem)
        ELSE IF verbType = "godan" THEN generateGodanConjugations(hiragana)
        ELSE IF verbType = "suru" THEN generateSuruConjugations(stem)
        ELSE IF verbType = "kuru" THEN generateGodanConjugations(hiragana)
        ELSE <<>>

generateConjugations(hiragana, verbType) ==
    LET stem == sliceInit(hiragana)
    IN  IF verbType = "ichidan" THEN generateIchidanConjugations(stem)
        ELSE IF verbType = "godan" THEN generateGodanConjugations(hiragana)
        ELSE IF verbType = "suru" THEN generateSuruConjugations(stem)
        ELSE IF verbType = "kuru" THEN generateKuruConjugations
        ELSE <<>>

(* The suffixes appended to the whole reading. *)
generateIAdjectiveConjugations_noStrip(hiragana) ==
    LET stem == hiragana
    IN
    << VC("Dictionary", hiragana, "", "Plain present"),
       VC("Polite", stem \o <<"i","de","su">>, "", "Polite present"),
       VC("Past", stem \o <<"ka","xtsu","ta">>, "", "Plain past"),
       VC("Past Polite", stem \o <<"ka","xtsu","ta","de","su">>, "", "Polite past"),
       VC("Negative", stem \o <<"ku","na","i">>, "", "Plain negative"),
       VC("Neg. Polite", stem \o <<"ku","na","i","de","su">>, "", "Polite negative"),
       VC("Past Neg.", stem \o <<"ku","na","ka","xtsu","ta">>, "", "Plain past neg."),
       VC("Te-form", stem \o <<"ku","te">>, "", "Connecting"),
       VC("Adverb", stem \o <<"ku">>, "", "Adverbial form"),
       VC("Conditional", stem \o <<"ke","re","ba">>, "", "If") >>

generateIAdjectiveConjugations(hiragana) ==
    LET stem == sliceInit(hiragana)
    IN
    << VC("Dictionary", hiragana, "", "Plain present"),
       VC("Polite", stem \o <<"i","de","su">>, "", "Polite present"),
       VC("Past", stem \o <<"ka","xtsu","ta">>, "", "Plain past"),
       VC("Past Polite", stem \o <<"ka","xtsu","ta","de","su">>, "", "Polite past"),
       VC("Negative", stem \o <<"ku","na","i">>, "", "Plain negative"),
       VC("Neg. Polite", stem \o <<"ku","na","i","de","su">>, "", "Polite negative"),
       VC("Past Neg.", stem \o <<"ku","na","ka","xtsu","ta">>, "", "Plain past neg."),
       VC("Te-form", stem \o <<"ku","te">>, "", "Connecting"),
       VC("Adverb", stem \o <<"ku">>, "", "Adverbial form"),
       VC("Conditional", stem \o <<"ke","re","ba">>, "", "If") >>

(* The table without its last row. *)
generateNaAdjectiveConjugations_noAttributive(hiragana) ==
    << VC("Dictionary", hiragana, "", "Plain/attributive"),
       VC("Polite", hiragana \o <<"de","su">>, "", "Polite present"),
       VC("Past", hiragana \o <<"da","xtsu","ta">>, "", "Plain past"),
       VC("Past Polite", hiragana \o <<"de","shi","ta">>, "", "Polite past"),
       VC("Negative", hiragana \o <<"ja","na","i">>, "", "Plain negative"),
       VC("Neg. Polite", hiragana \o <<"ja","a","ri","ma","se","n">>, "", "Polite negative"),
       VC("Past Neg.", hiragana \o <<"ja","na","ka","xtsu","ta">>, "", "Plain past neg."),
       VC("Te-form", hiragana \o <<"de">>, "", "Connecting"),
       VC("Adverb", hiragana \o <<"ni">>, "", "Adverbial form") >>

(* The suffixes appended to the reading without its last character. *)
generateNaAdjectiveConjugations_stripped(hiragana) ==
    << VC("Dictionary", hiragana, "", "Plain/attributive"),
       VC("Polite", sliceInit(hiragana) \o <<"de","su">>, "", "Polite present"),
       VC("Past", sliceInit(hiragana) \o <<"da","xtsu","ta">>, "", "Plain past"),
       VC("Past Polite", sliceInit(hiragana) \o <<"de","shi","ta">>, "", "Polite past"),
       VC("Negative", sliceInit(hiragana) \o <<"ja","na","i">>, "", "Plain negative"),
       VC("Neg. Polite", sliceInit(hiragana) \o <<"ja","a","ri","ma","se","n">>, "", "Polite negative"),
       VC("Past Neg.", sliceInit(hiragana) \o <<"ja","na","ka","xtsu","ta">>, "", "Plain past neg."),
       VC("Te-form", sliceInit(hiragana) \o <<"de">>, "", "Connecting"),
       VC("Adverb", sliceInit(hiragana) \o <<"ni">>, "", "Adverbial form"),
       VC("Attributive", sliceInit(hiragana) \o <<"na">>, "", "Before nouns") >>

generateNaAdjectiveConjugations(hiragana) ==
    << VC("Dictionary", hiragana, "", "Plain/attributive"),
       VC("Polite", hiragana \o <<"de","su">>, "", "Polite present"),
       VC("Past", hiragana \o <<"da","xtsu","ta">>, "", "Plain past"),
       VC("Past Polite", hiragana \o <<"de","shi","ta">>, "", "Polite past"),
       VC("Negative", hiragana \o <<"ja","na","i">>, "", "Plain negative"),
       VC("Neg. Polite", hiragana \o <<"ja","a","ri","ma","se","n">>, "", "Polite negative"),
       VC("Past Neg.", hiragana \o <<"ja","na","ka","xtsu","ta">>, "", "Plain past neg."),
       VC("Te-form", hiragana \o <<"de">>, "", "Connecting"),
       VC("Adverb", hiragana \o <<"ni">>, "", "Adverbial form"),
       VC("Attributive", hiragana \o <<"na">>, "", "Before nouns") >>

(* じゃ is two code units in the source (U+3058 U+3083); no code path looks *)
(* inside a suffix, so the token "ja" stands for the pair.                 *)

(***************************************************************************)
(* WordDetailDialog's choice of generator, part_016:572-585.  A value is   *)
(* truthy in the && of line 576 unless it is null or the empty string.     *)
(***************************************************************************)

truthy(v) == v # NULL /\ v # UNDEFINED /\ v # ""

(* The dispatch without its adjective-na branch. *)
WordDetailConjugations_noNaAdjective(word) ==
    IF word.category = "verb" /\ truthy(word.verb_type)
    THEN generateConjugations(word.hiragana, word.verb_type)
    ELSE IF word.category = "adjective-i"
    THEN generateIAdjectiveConjugations(word.hiragana)
    ELSE <<>>

WordDetailConjugations(word) ==
    IF word.category = "verb" /\ truthy(word.verb_type)
    THEN generateConjugations(word.hiragana, word.verb_type)
    ELSE IF word.category = "adjective-i"
    THEN generateIAdjectiveConjugations(word.hiragana)
    ELSE IF word.category = "adjective-na"
    THEN generateNaAdjectiveConjugations(word.hiragana)
    ELSE <<>>

(***************************************************************************)
(* Inputs.                                                                 *)
(*                                                                         *)
(* The code looks at the last character of a reading, at the character     *)
(* before it, and at whether the whole reading is one of four two-         *)
(* character words.  A reading is therefore a stem followed by a final     *)
(* character; a stem is a prefix of up to MaxPrefix plain kana followed by *)
(* at most one character of the whole kana set.                            *)
(***************************************************************************)

MaxPrefix == 1
MaxTags == 1
MaxPartsOfSpeech == 2

GodanEndings == {"u", "ku", "gu", "su", "tsu", "nu", "bu", "mu", "ru"}

Kana ==
    { "i", "e", "ki", "ke", "gi", "ge", "shi", "se", "ji", "ze", "chi", "te",
      "di", "de", "ni", "ne", "hi", "he", "bi", "be", "pi", "pe", "mi", "me",
      "ri", "re",
      "u", "ku", "gu", "su", "tsu", "nu", "bu", "mu", "ru",
      "no", "KANJI_IKU", "KANJI_KURU" }

PrefixKana == {"no"}

FinalKana == GodanEndings \cup {"i", "no"}

SeqsUpTo(S, n) == UNION {[1..k -> S] : k \in 0..n}

Stems ==
    {p \o q : p \in SeqsUpTo(PrefixKana, MaxPrefix),
              q \in {<<>>} \cup {<<k>> : k \in Kana}}

Readings == {<<>>} \cup {s \o <<f>> : s \in Stems, f \in FinalKana}

(* Tag strings.  The code joins a list with " " before it looks for a     *)
(* keyword, so a string with a space in it is a list of two already.       *)
(* detectVerbType looks for the eight verb-type words only: its tags are   *)
(* those words, alone, capitalised and in conflicting pairs, and two tags  *)
(* holding none of them ("common" is the tag route.ts:308 adds).           *)
TagVocabulary ==
    { <<"v","5">>,
      <<"G","o","d","a","n"," ","v","e","r","b">>,
      <<"v","1">>,
      <<"i","c","h","i","d","a","n">>,
      <<"s","u","r","u">>,
      <<"v","s">>,
      <<"k","u","r","u">>,
      <<"v","k">>,
      <<"v","1"," ","v","5">>,
      <<"v","1"," ","v","s">>,
      <<"v","s"," ","v","k">>,
      <<"n","o","u","n">>,
      <<"c","o","m","m","o","n">> }

TagLists == SeqsUpTo(TagVocabulary, MaxTags)

(* Part-of-speech strings for detectCategory: every keyword of its rules,  *)
(* capitalised ones, and strings that several rules match.                 *)
PartOfSpeechVocabulary ==
    { <<"v","5">>,
      <<"G","o","d","a","n"," ","v","e","r","b">>,
      <<"v","1">>,
      <<"I","c","h","i","d","a","n"," ","v","e","r","b">>,
      <<"s","u","r","u">>,
      <<"v","s">>,
      <<"v","s","-","i">>,
      <<"k","u","r","u">>,
      <<"v","k">>,
      <<"c","o","u","n","t","e","r">>,
      <<"A","d","v","e","r","b">>,
      <<"p","a","r","t","i","c","l","e">>,
      <<"e","x","p","r","e","s","s","i","o","n">>,
      <<"I","-","a","d","j","e","c","t","i","v","e">>,
      <<"a","d","j","-","i">>,
      <<"N","a","-","a","d","j","e","c","t","i","v","e">>,
      <<"a","d","j","-","n","a">>,
      <<"n","o","u","n">>,
      <<"v","e","r","b">>,
      <<"a","d","v","e","r","b","i","a","l","-","v","e","r","b","-","f","o","r","m">>,
      <<"n">>,
      <<"v","1"," ","v","5">>,
      <<"v","s"," ","v","k">>,
      <<"n","o","u","n"," ","v","e","r","b">> }

PartsOfSpeechLists == SeqsUpTo(PartOfSpeechVocabulary, MaxPartsOfSpeech)

VerbTypeArgs == {"ichidan", "godan", "suru", "kuru", "irregular", ""}

Categories ==
    {"verb", "noun", "adjective-i", "adjective-na", "adverb", "particle",
     "expression", "counter", "other"}

(***************************************************************************)
(* The Supabase-backed rate limit check, src/src/lib/rate-limit.ts 37-108. *)
(* The awaited supabase.rpc("check_rate_limit", ...) either throws or      *)
(* resolves to { data, error }; data is a sequence of no element (null) or *)
(* of one { success, remaining, reset_in }.  An exception that leaves a    *)
(* block is the value Thrown.  failOpen is "true", "false" or undefined.   *)
(***************************************************************************)
Thrown == [thrown |-> "Error"]

(* checkRateLimitWithClient with failOpen honoured only when it is true.   *)
checkRateLimitWithClient_closedByDefault(rpc, config) ==
    LET tried ==
            IF rpc.outcome = "throws"
            THEN Thrown
            ELSE IF rpc.error \/ rpc.data = << >>
            THEN LET shouldAllow == config.failOpen = "true"
                 IN  [success |-> shouldAllow,
                      remaining |-> IF shouldAllow THEN config.maxRequests ELSE 0,
                      resetIn |-> config.windowSeconds]
            ELSE [success |-> rpc.data[1].success,
                  remaining |-> rpc.data[1].remaining,
                  resetIn |-> rpc.data[1].reset_in]
    IN  IF tried = Thrown
        THEN LET shouldAllow == config.failOpen = "true"
             IN  [success |-> shouldAllow,
                  remaining |-> IF shouldAllow THEN config.maxRequests ELSE 0,
                  resetIn |-> config.windowSeconds]
        ELSE tried

checkRateLimitWithClient(rpc, config) ==
    LET tried ==
            IF rpc.outcome = "throws"
            THEN Thrown
            ELSE IF rpc.error \/ rpc.data = << >>
            THEN LET shouldAllow == config.failOpen # "false"
                 IN  [success |-> shouldAllow,
                      remaining |-> IF shouldAllow THEN config.maxRequests ELSE 0,
                      resetIn |-> config.windowSeconds]
            ELSE [success |-> rpc.data[1].success,
                  remaining |-> rpc.data[1].remaining,
                  resetIn |-> rpc.data[1].reset_in]
    IN  IF tried = Thrown
        THEN LET shouldAllow == config.failOpen # "false"
             IN  [success |-> shouldAllow,
                  remaining |-> IF shouldAllow THEN config.maxRequests ELSE 0,
                  resetIn |-> config.windowSeconds]
        ELSE tried

(* checkRateLimit first awaits createClient(cookies()), which may throw.   *)
checkRateLimit(client, rpc, config) ==
    LET tried ==
            IF client = "throws" \/ rpc.outcome = "throws"
            THEN Thrown
            ELSE IF rpc.error \/ rpc.data = << >>
            THEN LET shouldAllow == config.failOpen # "false"
                 IN  [success |-> shouldAllow,
                      remaining |-> IF shouldAllow THEN config.maxRequests ELSE 0,
                      resetIn |-> config.windowSeconds]
            ELSE [success |-> rpc.data[1].success,
                  remaining |-> rpc.data[1].remaining,
                  resetIn |-> rpc.data[1].reset_in]
    IN  IF tried = Thrown
        THEN LET shouldAllow == config.failOpen # "false"
             IN  [success |-> shouldAllow,
                  remaining |-> IF shouldAllow THEN config.maxRequests ELSE 0,
                  resetIn |-> config.windowSeconds]
        ELSE tried

(* Bound of the numbers in a config and in an RPC answer. *)
MaxRpcNumber == 1

RpcNumbers == 0..MaxRpcNumber

RateLimitConfigs ==
    [maxRequests : RpcNumbers, windowSeconds : RpcNumbers,
     failOpen : {"true", "false", UNDEFINED}]

RateLimitResponses ==
    [success : BOOLEAN, remaining : RpcNumbers, reset_in : RpcNumbers]

RpcOutcomes ==
    {[outcome |-> "throws"]}
    \cup [outcome : {"resolves"}, error : BOOLEAN,
          data : {<< >>} \cup {<<d>> : d \in RateLimitResponses}]

(***************************************************************************)
(* AI feature gating: src/src/lib/ai-features.ts 11-88 and the hook        *)
(* useAIFeatures, src/src/lib/configuration.ts 450-569.                    *)
(* A table is a function from the feature keys that have a row to the      *)
(* row's enabled column.  A select either delivers the rows or fails: it   *)
(* then has data null and an error, whose message may say that the table   *)
(* "does not exist".                                                       *)
(***************************************************************************)

(* Number of the feature keys that are taken into the runs. *)
MaxFeatureKeys == 2

AllFeatureKeys ==
    <<"assistant", "pronunciation_assistance", "example_sentences",
      "related_words", "grammar_explanations", "smart_flashcards">>

AI_FEATURE_KEYS == {AllFeatureKeys[i] : i \in 1..MaxFeatureKeys}

NoRows == [k \in {} |-> FALSE]

(* The rows a select hands over: data is null when the select failed, and  *)
(* data?.forEach then visits nothing.                                      *)
dataOf(rows, outcome) == IF outcome = "ok" THEN rows ELSE NoRows

(* .eq("feature_key", k).single(): the row, or null (no element) when the  *)
(* select failed or found no row.                                          *)
single(rows, outcome, k) ==
    IF outcome = "ok" /\ k \in DOMAIN rows THEN <<rows[k]>> ELSE << >>

(* map.get(k) ?? d *)
getOr(map, k, d) == IF k \in DOMAIN map THEN map[k] ELSE d

isAIFeatureEnabled(db, featureKey) ==
    IF ~db.user THEN FALSE
    ELSE LET globalSetting == single(db.globalRows, db.globalOutcome, featureKey)
         IN  IF Len(globalSetting) > 0 /\ ~globalSetting[1] THEN FALSE
             ELSE LET userSetting == single(db.userRows, db.userOutcome, featureKey)
                  IN  IF Len(userSetting) = 0 THEN FALSE
                      ELSE userSetting[1]

getAllAIFeatureStatuses(db) ==
    IF ~db.user THEN [key \in AI_FEATURE_KEYS |-> FALSE]
    ELSE LET globalMap == dataOf(db.globalRows, db.globalOutcome)
             userSettings == dataOf(db.userRows, db.userOutcome)
         IN  [key \in AI_FEATURE_KEYS \cup DOMAIN userSettings |->
                 IF key \in DOMAIN userSettings
                 THEN getOr(globalMap, key, TRUE) /\ userSettings[key]
                 ELSE FALSE]

(* One run of the hook's fetchFeatures while the component stays mounted:  *)
(* the state the hook ends with.                                           *)
fetchFeatures(db) ==
    IF ~db.user
    THEN [features |-> NoRows, hasAnyEnabled |-> FALSE, isLoading |-> FALSE,
          error |-> NULL]
    ELSE IF db.globalOutcome = "error"
    THEN [features |-> NoRows, hasAnyEnabled |-> FALSE, isLoading |-> FALSE,
          error |-> "global select failed"]
    ELSE IF db.userOutcome = "error"
    THEN [features |-> NoRows, hasAnyEnabled |-> FALSE, isLoading |-> FALSE,
          error |-> "user select failed"]
    ELSE LET globalData == dataOf(db.globalRows, db.globalOutcome)
             globalMap == [key \in AI_FEATURE_KEYS \cup DOMAIN globalData |->
                              getOr(globalData, key, TRUE)]
             userEnabledMap == dataOf(db.userRows, db.userOutcome)
             finalMap == [key \in AI_FEATURE_KEYS |->
                             getOr(globalMap, key, TRUE)
                             /\ getOr(userEnabledMap, key, FALSE)]
         IN  [features |-> finalMap,
              hasAnyEnabled |-> \E key \in DOMAIN finalMap : finalMap[key],
              isLoading |-> FALSE,
              error |-> NULL]

(* useAIFeature(featureKey).isEnabled: features.get(featureKey) ?? false *)
useAIFeature(state, featureKey) == getOr(state.features, featureKey, FALSE)

(* The tables (one feature_key per row, the user's rows only), whether a   *)
(* user is signed in, and how the two selects end.  The message "does not  *)
(* exist" comes from a table that is not there, so it has no rows.         *)
Tables ==
    UNION {[keys -> BOOLEAN] : keys \in SUBSET AI_FEATURE_KEYS}

SelectOutcomes(rows) ==
    {"ok", "error"} \cup (IF DOMAIN rows = {} THEN {"does not exist"} ELSE {})

Databases ==
    {[user |-> u, globalRows |-> g, globalOutcome |-> go,
      userRows |-> r, userOutcome |-> ro] :
        u \in BOOLEAN, g \in Tables, r \in Tables,
        go \in {"ok", "error", "does not exist"},
        ro \in {"ok", "error", "does not exist"}}

(***************************************************************************)
(* The word form, src/unnamed/part_018: selectResult (133-184),            *)
(* handleCategoryChange (222-233) and the verb type select (374-392).      *)
(* Of formData the fields hiragana, tags, category and verbType are kept;  *)
(* the others are copied texts.                                            *)
(***************************************************************************)

(* tags.join(", ") *)
RECURSIVE joinComma(_)
joinComma(tags) ==
    IF Len(tags) = 0 THEN <<>>
    ELSE IF Len(tags) = 1 THEN tags[1]
    ELSE tags[1] \o <<",", " ">> \o joinComma(Tail(tags))

(* s.split(",") *)
RECURSIVE split(_)
split(s) ==
    IF \A i \in 1..Len(s) : s[i] # ","
    THEN <<s>>
    ELSE LET i == CHOOSE j \in 1..Len(s) :
                      s[j] = "," /\ \A k \in 1..(j - 1) : s[k] # ","
         IN  <<SubSeq(s, 1, i - 1)>> \o split(SubSeq(s, i + 1, Len(s)))

(* t.trim() *)
RECURSIVE trim(_)
trim(t) ==
    IF Len(t) = 0 THEN t
    ELSE IF t[1] = " " THEN trim(Tail(t))
    ELSE IF t[Len(t)] = " " THEN trim(SubSeq(t, 1, Len(t) - 1))
    ELSE t

EmptyForm ==
    [hiragana |-> <<>>, tags |-> <<>>, category |-> "other", verbType |-> NULL]

(* selectResult: the form afterwards, and how often it called              *)
(* detectVerbType.                                                         *)
(* selectResult that derives the category from the parts of speech even when the lookup supplied one. *)
selectResult_alwaysDerives(data, result) ==
    LET category0 == IF truthy(result.category) THEN result.category ELSE "other"
        verbType0 == IF truthy(result.verbType) THEN result.verbType ELSE NULL
        pos == toLowerCase(join(result.partsOfSpeech))
        has(t) == includes(pos, t)
        allTags == result.partsOfSpeech \o result.tags
        derive == TRUE
        isVerb == has(<<"v","e","r","b">>) \/ has(<<"v","1">>) \/ has(<<"v","5">>) \/ has(<<"v","s">>)
        category ==
            IF ~derive THEN category0
            ELSE IF has(<<"c","o","u","n","t","e","r">>) THEN "counter"
            ELSE IF has(<<"a","d","v","e","r","b">>) \/ has(<<"a","d","v">>) THEN "adverb"
            ELSE IF has(<<"p","a","r","t","i","c","l","e">>) THEN "particle"
            ELSE IF has(<<"e","x","p","r","e","s","s","i","o","n">>) \/ has(<<"e","x","p">>) THEN "expression"
            ELSE IF has(<<"i","-","a","d","j","e","c","t","i","v","e">>) \/ has(<<"a","d","j","-","i">>) THEN "adjective-i"
            ELSE IF has(<<"n","a","-","a","d","j","e","c","t","i","v","e">>) \/ has(<<"a","d","j","-","n","a">>) THEN "adjective-na"
            ELSE IF isVerb THEN "verb"
            ELSE IF has(<<"n","o","u","n">>) \/ has(<<"n"," ">>) THEN "noun"
            ELSE category0
        innerBranch ==
            /\ derive
            /\ ~has(<<"c","o","u","n","t","e","r">>) /\ ~has(<<"a","d","v","e","r","b">>) /\ ~has(<<"a","d","v">>) /\ ~has(<<"p","a","r","t","i","c","l","e">>)
            /\ ~has(<<"e","x","p","r","e","s","s","i","o","n">>) /\ ~has(<<"e","x","p">>)
            /\ ~has(<<"i","-","a","d","j","e","c","t","i","v","e">>) /\ ~has(<<"a","d","j","-","i">>)
            /\ ~has(<<"n","a","-","a","d","j","e","c","t","i","v","e">>) /\ ~has(<<"a","d","j","-","n","a">>)
            /\ isVerb
        verbType1 ==
            IF innerBranch /\ ~truthy(verbType0)
            THEN detectVerbType(result.hiragana, allTags)
            ELSE verbType0
        calls1 == IF innerBranch /\ ~truthy(verbType0) THEN 1 ELSE 0
        verbType ==
            IF category = "verb" /\ ~truthy(verbType1)
            THEN detectVerbType(result.hiragana, allTags)
            ELSE verbType1
        calls2 == IF category = "verb" /\ ~truthy(verbType1) THEN 1 ELSE 0
    IN  [formData |-> [hiragana |-> result.hiragana,
                       tags |-> joinComma(result.tags),
                       category |-> category,
                       verbType |-> verbType],
         detectVerbTypeCalls |-> calls1 + calls2]

selectResult(data, result) ==
    LET category0 == IF truthy(result.category) THEN result.category ELSE "other"
        verbType0 == IF truthy(result.verbType) THEN result.verbType ELSE NULL
        pos == toLowerCase(join(result.partsOfSpeech))
        has(t) == includes(pos, t)
        allTags == result.partsOfSpeech \o result.tags
        derive == ~truthy(result.category) \/ result.category = "other"
        isVerb == has(<<"v","e","r","b">>) \/ has(<<"v","1">>) \/ has(<<"v","5">>) \/ has(<<"v","s">>)
        category ==
            IF ~derive THEN category0
            ELSE IF has(<<"c","o","u","n","t","e","r">>) THEN "counter"
            ELSE IF has(<<"a","d","v","e","r","b">>) \/ has(<<"a","d","v">>) THEN "adverb"
            ELSE IF has(<<"p","a","r","t","i","c","l","e">>) THEN "particle"
            ELSE IF has(<<"e","x","p","r","e","s","s","i","o","n">>) \/ has(<<"e","x","p">>) THEN "expression"
            ELSE IF has(<<"i","-","a","d","j","e","c","t","i","v","e">>) \/ has(<<"a","d","j","-","i">>) THEN "adjective-i"
            ELSE IF has(<<"n","a","-","a","d","j","e","c","t","i","v","e">>) \/ has(<<"a","d","j","-","n","a">>) THEN "adjective-na"
            ELSE IF isVerb THEN "verb"
            ELSE IF has(<<"n","o","u","n">>) \/ has(<<"n"," ">>) THEN "noun"
            ELSE category0
        innerBranch ==
            /\ derive
            /\ ~has(<<"c","o","u","n","t","e","r">>) /\ ~has(<<"a","d","v","e","r","b">>) /\ ~has(<<"a","d","v">>) /\ ~has(<<"p","a","r","t","i","c","l","e">>)
            /\ ~has(<<"e","x","p","r","e","s","s","i","o","n">>) /\ ~has(<<"e","x","p">>)
            /\ ~has(<<"i","-","a","d","j","e","c","t","i","v","e">>) /\ ~has(<<"a","d","j","-","i">>)
            /\ ~has(<<"n","a","-","a","d","j","e","c","t","i","v","e">>) /\ ~has(<<"a","d","j","-","n","a">>)
            /\ isVerb
        verbType1 ==
            IF innerBranch /\ ~truthy(verbType0)
            THEN detectVerbType(result.hiragana, allTags)
            ELSE verbType0
        calls1 == IF innerBranch /\ ~truthy(verbType0) THEN 1 ELSE 0
        verbType ==
            IF category = "verb" /\ ~truthy(verbType1)
            THEN detectVerbType(result.hiragana, allTags)
            ELSE verbType1
        calls2 == IF category = "verb" /\ ~truthy(verbType1) THEN 1 ELSE 0
    IN  [formData |-> [hiragana |-> result.hiragana,
                       tags |-> joinComma(result.tags),
                       category |-> category,
                       verbType |-> verbType],
         detectVerbTypeCalls |-> calls1 + calls2]

(* handleCategoryChange that leaves the verb type when the category stops being verb. *)
handleCategoryChange_keepsVerbType(data, value) ==
    LET verbType ==
            IF value = "verb" /\ ~truthy(data.verbType) /\ Len(data.hiragana) > 0
            THEN detectVerbType(data.hiragana,
                                [i \in 1..Len(split(data.tags)) |->
                                    trim(split(data.tags)[i])])
            ELSE IF value # "verb" THEN data.verbType
            ELSE data.verbType
    IN  [data EXCEPT !.category = value, !.verbType = verbType]

handleCategoryChange(data, value) ==
    LET verbType ==
            IF value = "verb" /\ ~truthy(data.verbType) /\ Len(data.hiragana) > 0
            THEN detectVerbType(data.hiragana,
                                [i \in 1..Len(split(data.tags)) |->
                                    trim(split(data.tags)[i])])
            ELSE IF value # "verb" THEN NULL
            ELSE data.verbType
    IN  [data EXCEPT !.category = value, !.verbType = verbType]

(* onValueChange of the verb type select *)
onVerbTypeChange(data, value) ==
    [data EXCEPT !.verbType = IF truthy(value) THEN value ELSE NULL]

FormReadings == {<<>>, <<"no", "mu">>, <<"mi", "ru">>}

FormPartsOfSpeechLists ==
    { <<>>,
      <<<<"G","o","d","a","n"," ","v","e","r","b">>>>,
      <<<<"v","s">>>>,
      <<<<"n","o","u","n">>>>,
      <<<<"a","d","v","e","r","b">>>>,
      <<<<"n","o","u","n">>, <<"v","s">>>> }

(* Tag lists; the one of two tags is shown in the form as "common, v5". *)
FormTagLists ==
    { <<>>, <<<<"v","5">>>>, <<<<"c","o","m","m","o","n">>, <<"v","5">>>> }

(* The results the lookup route sends: category and verbType are           *)
(* detectCategory's, and JSON drops an undefined verbType.                 *)
LookupResults ==
    {[hiragana |-> h, partsOfSpeech |-> p, tags |-> t,
      category |-> detectCategory(p).category,
      verbType |-> detectCategory(p).verbType] :
        h \in FormReadings, p \in FormPartsOfSpeechLists, t \in FormTagLists}

(* Any DictionaryResult, whatever its hint. *)
DictionaryResults ==
    [hiragana : FormReadings,
     partsOfSpeech : FormPartsOfSpeechLists,
     tags : FormTagLists,
     category : {"verb", "noun", "adverb", "other", UNDEFINED},
     verbType : {"godan", "ichidan", UNDEFINED}]

(***************************************************************************)
(* The state machine: one call at a time, each action a whole call.        *)
(***************************************************************************)

(* No rate limiter has been used: its Map is empty. *)
NoLimiter ==
    /\ tracker = << >>
    /\ now = 0
    /\ windowMs = 0
    /\ maxRequests = 0
    /\ calls = << >>

(* No component uses the hook. *)
NoHook ==
    /\ hookState = [role |-> NULL, status |-> NULL, userId |-> NULL,
                    isLoading |-> TRUE, error |-> NULL]
    /\ isMounted = TRUE
    /\ mounted = FALSE
    /\ fetches = << >>
    /\ lastUpdate = [by |-> 0, afterCleanup |-> FALSE]

(* No word form is open. *)
NoForm ==
    /\ formData = EmptyForm
    /\ selectedResult = << >>

Init ==
    /\ call = NoCall
    /\ ret = UNDEFINED
    /\ NoLimiter
    /\ NoForm
    /\ NoHook

DetectVerbType ==
    /\ call.fn = "none"
    /\ \E h \in Readings, t \in TagLists :
          /\ call' = [fn |-> "detectVerbType", hiragana |-> h, tags |-> t]
          /\ ret' = detectVerbType(h, t)
    /\ UNCHANGED <<limiter, wordForm, userRole>>

DetectCategory ==
    /\ call.fn = "none"
    /\ \E t \in PartsOfSpeechLists :
          /\ call' = [fn |-> "detectCategory", partsOfSpeech |-> t]
          /\ ret' = detectCategory(t)
    /\ UNCHANGED <<limiter, wordForm, userRole>>

GenerateConjugations ==
    /\ call.fn = "none"
    /\ \E h \in Readings, v \in VerbTypeArgs :
          /\ call' = [fn |-> "generateConjugations", hiragana |-> h, verbType |-> v]
          /\ ret' = generateConjugations(h, v)
    /\ UNCHANGED <<limiter, wordForm, userRole>>

GenerateIAdjectiveConjugations ==
    /\ call.fn = "none"
    /\ \E h \in Readings :
          /\ call' = [fn |-> "generateIAdjectiveConjugations", hiragana |-> h]
          /\ ret' = generateIAdjectiveConjugations(h)
    /\ UNCHANGED <<limiter, wordForm, userRole>>

GenerateNaAdjectiveConjugations ==
    /\ call.fn = "none"
    /\ \E h \in Readings :
          /\ call' = [fn |-> "generateNaAdjectiveConjugations", hiragana |-> h]
          /\ ret' = generateNaAdjectiveConjugations(h)
    /\ UNCHANGED <<limiter, wordForm, userRole>>

WordDetailDialog ==
    /\ call.fn = "none"
    /\ \E h \in Readings, c \in Categories, v \in VerbTypeArgs \cup {NULL} :
          LET word == [hiragana |-> h, category |-> c, verb_type |-> v]
          IN  /\ call' = [fn |-> "WordDetailDialog", word |-> word]
              /\ ret' = WordDetailConjugations(word)
    /\ UNCHANGED <<limiter, wordForm, userRole>>

CheckRateLimitWithClient ==
    /\ call.fn = "none"
    /\ \E rpc \in RpcOutcomes, config \in RateLimitConfigs :
          /\ call' = [fn |-> "checkRateLimitWithClient", client |-> "given",
                      rpc |-> rpc, config |-> config]
          /\ ret' = checkRateLimitWithClient(rpc, config)
    /\ UNCHANGED <<limiter, wordForm, userRole>>

CheckRateLimit ==
    /\ call.fn = "none"
    /\ \E client \in {"created", "throws"}, rpc \in RpcOutcomes,
          config \in RateLimitConfigs :
          /\ call' = [fn |-> "checkRateLimit", client |-> client,
                      rpc |-> rpc, config |-> config]
          /\ ret' = checkRateLimit(client, rpc, config)
    /\ UNCHANGED <<limiter, wordForm, userRole>>

(* The selects' outcomes that the tables of db allow. *)
Possible(db) ==
    /\ db.globalOutcome \in SelectOutcomes(db.globalRows)
    /\ db.userOutcome \in SelectOutcomes(db.userRows)

IsAIFeatureEnabled ==
    /\ call.fn = "none"
    /\ \E db \in Databases, key \in AI_FEATURE_KEYS :
          /\ Possible(db)
          /\ call' = [fn |-> "isAIFeatureEnabled", db |-> db, featureKey |-> key]
          /\ ret' = isAIFeatureEnabled(db, key)
    /\ UNCHANGED <<limiter, wordForm, userRole>>

GetAllAIFeatureStatuses ==
    /\ call.fn = "none"
    /\ \E db \in Databases :
          /\ Possible(db)
          /\ call' = [fn |-> "getAllAIFeatureStatuses", db |-> db]
          /\ ret' = getAllAIFeatureStatuses(db)
    /\ UNCHANGED <<limiter, wordForm, userRole>>

UseAIFeatures ==
    /\ call.fn = "none"
    /\ \E db \in Databases :
          /\ Possible(db)
          /\ call' = [fn |-> "useAIFeatures", db |-> db]
          /\ ret' = fetchFeatures(db)
    /\ UNCHANGED <<limiter, wordForm, userRole>>

SelectResult ==
    /\ call.fn = "none"
    /\ \E result \in DictionaryResults :
          /\ call' = [fn |-> "selectResult", result |-> result]
          /\ ret' = selectResult(EmptyForm, result)
    /\ UNCHANGED <<limiter, wordForm, userRole>>

Return ==
    /\ call.fn # "none"
    /\ call' = NoCall
    /\ ret' = UNDEFINED
    /\ UNCHANGED <<limiter, wordForm, userRole>>

Next ==
    \/ DetectVerbType
    \/ DetectCategory
    \/ GenerateConjugations
    \/ GenerateIAdjectiveConjugations
    \/ GenerateNaAdjectiveConjugations
    \/ WordDetailDialog
    \/ CheckRateLimitWithClient
    \/ CheckRateLimit
    \/ IsAIFeatureEnabled
    \/ GetAllAIFeatureStatuses
    \/ UseAIFeatures
    \/ SelectResult
    \/ Return

Spec == Init /\ [][Next]_vars

(***************************************************************************)
(* The in-memory rate limiter, src/src/lib/configuration.ts 364-397.       *)
(* tracker is the Map: a function from the identifiers that have an entry  *)
(* to their { count, resetAt }.                                            *)
(***************************************************************************)

(* tracker.set(identifier, entry) *)
MapSet(m, k, v) == [x \in DOMAIN m \cup {k} |-> IF x = k THEN v ELSE m[x]]

(* tracker.delete(identifier) *)
MapDelete(m, k) == [x \in DOMAIN m \ {k} |-> m[x]]

(* check(identifier) at clock t: the value returned and the Map afterwards *)
(* check with the limit test off by one: maxRequests + 1 calls pass. *)
check_offByOne(m, identifier, t, window, max) ==
    IF identifier \notin DOMAIN m \/ t > m[identifier].resetAt
    THEN [ret |-> TRUE,
          tracker |-> MapSet(m, identifier, [count |-> 1, resetAt |-> t + window])]
    ELSE IF m[identifier].count > max
    THEN [ret |-> FALSE, tracker |-> m]
    ELSE [ret |-> TRUE,
          tracker |-> [m EXCEPT ![identifier].count = @ + 1]]

(* check that takes the window as expired already at resetAt. *)
check_expiresAtResetAt(m, identifier, t, window, max) ==
    IF identifier \notin DOMAIN m \/ t >= m[identifier].resetAt
    THEN [ret |-> TRUE,
          tracker |-> MapSet(m, identifier, [count |-> 1, resetAt |-> t + window])]
    ELSE IF m[identifier].count >= max
    THEN [ret |-> FALSE, tracker |-> m]
    ELSE [ret |-> TRUE,
          tracker |-> [m EXCEPT ![identifier].count = @ + 1]]

check(m, identifier, t, window, max) ==
    IF identifier \notin DOMAIN m \/ t > m[identifier].resetAt
    THEN [ret |-> TRUE,
          tracker |-> MapSet(m, identifier, [count |-> 1, resetAt |-> t + window])]
    ELSE IF m[identifier].count >= max
    THEN [ret |-> FALSE, tracker |-> m]
    ELSE [ret |-> TRUE,
          tracker |-> [m EXCEPT ![identifier].count = @ + 1]]

(* reset(identifier?): the Map afterwards *)
reset(m, identifier) ==
    IF truthy(identifier) THEN MapDelete(m, identifier) ELSE << >>

(* Bounds of the limiter's runs. *)
MaxTime == 3
MaxWindowMs == 2
MaxMaxRequests == 2
MaxBlocked == 1

Ids == {"", "a", "b"}

(* The callers' count for one identifier: how many check calls they made   *)
(* since they opened its window at time since, and how many of them were   *)
(* allowed.  A window is open from the  *)
(* first check after a reset (or ever) until the clock passes              *)
(* since + windowMs.                                                       *)
InWindow(id) == id \in DOMAIN calls /\ now <= calls[id].since + windowMs

InitLimiter ==
    /\ call = NoCall
    /\ ret = UNDEFINED
    /\ tracker = << >>
    /\ now = 0
    /\ windowMs \in 0..MaxWindowMs
    /\ maxRequests \in 0..MaxMaxRequests
    /\ calls = << >>
    /\ NoForm
    /\ NoHook

Check ==
    \E id \in Ids :
        /\ InWindow(id) => calls[id].n < maxRequests + MaxBlocked
        /\ LET r == check(tracker, id, now, windowMs, maxRequests)
           IN  /\ ret' = r.ret
               /\ tracker' = r.tracker
        /\ call' = [fn |-> "check", identifier |-> id, at |-> now, before |-> tracker]
        /\ calls' = IF InWindow(id)
                    THEN [calls EXCEPT ![id].n = @ + 1,
                                       ![id].allowed = @ + (IF ret' THEN 1 ELSE 0)]
                    ELSE MapSet(calls, id, [n |-> 1, since |-> now,
                                            allowed |-> IF ret' THEN 1 ELSE 0])
        /\ UNCHANGED <<now, windowMs, maxRequests, wordForm, userRole>>

Reset ==
    \E id \in Ids \cup {UNDEFINED} :
        /\ tracker' = reset(tracker, id)
        /\ ret' = UNDEFINED
        /\ call' = [fn |-> "reset", identifier |-> id, at |-> now, before |-> tracker]
        /\ calls' = [x \in DOMAIN calls \cap DOMAIN tracker' |-> calls[x]]
        /\ UNCHANGED <<now, windowMs, maxRequests, wordForm, userRole>>

(* Date.now() moves on between two calls. *)
Tick ==
    /\ now < MaxTime
    /\ now' = now + 1
    /\ UNCHANGED <<call, ret, tracker, windowMs, maxRequests, calls, wordForm, userRole>>

NextLimiter ==
    \/ Check
    \/ Reset
    \/ Tick

SpecLimiter == InitLimiter /\ [][NextLimiter]_vars

(***************************************************************************)
(* One open WordForm for a new word: the user selects lookup results,      *)
(* changes the category and picks a verb type.                             *)
(***************************************************************************)
InitForm ==
    /\ call = NoCall
    /\ ret = UNDEFINED
    /\ NoLimiter
    /\ NoForm
    /\ NoHook

SelectLookupResult ==
    \E result \in LookupResults :
        /\ call' = [fn |-> "selectResult", result |-> result]
        /\ ret' = selectResult(formData, result)
        /\ formData' = ret'.formData
        /\ selectedResult' = <<result>>
        /\ UNCHANGED <<limiter, userRole>>

HandleCategoryChange ==
    \E value \in Categories :
        /\ call' = [fn |-> "handleCategoryChange", value |-> value,
                    before |-> formData]
        /\ ret' = UNDEFINED
        /\ formData' = handleCategoryChange(formData, value)
        /\ UNCHANGED <<limiter, selectedResult, userRole>>

(* The verb type select is rendered only while the category is verb. *)
VerbTypeSelect ==
    /\ formData.category = "verb"
    /\ \E value \in {"ichidan", "godan", "suru", "kuru"} :
          /\ call' = [fn |-> "onVerbTypeChange", value |-> value]
          /\ ret' = UNDEFINED
          /\ formData' = onVerbTypeChange(formData, value)
    /\ UNCHANGED <<limiter, selectedResult, userRole>>

NextForm ==
    \/ SelectLookupResult
    \/ HandleCategoryChange
    \/ VerbTypeSelect

SpecForm == InitForm /\ [][NextForm]_vars

(***************************************************************************)
(* The hook useUserRole, src/src/hooks/use-user-role.ts 33-110.            *)
(* fetchRole runs in three pieces, cut at its two awaits.  A run is        *)
(* [pc, cleanedUp]: where it waits, and whether the cleanup of the effect  *)
(* that started it has run.  React runs an effect's cleanup and the next   *)
(* effect in one go, between two pieces of any run.                        *)
(***************************************************************************)

(* Bound of the number of fetchRole runs (the first and the refetches). *)
MaxFetches == 3

ProfileOutcomes ==
    {[error |-> "PGRST116", profile |-> << >>],
     [error |-> "other", profile |-> << >>],
     [error |-> NULL, profile |-> << >>]}
    \cup {[error |-> NULL, profile |-> <<[role |-> r, status |-> st]>>] :
              r \in {"user", "admin"}, st \in {"active", "suspended"}}

(* The effect: isMounted.current = true, then fetchRole() up to its first  *)
(* await.                                                                  *)
startFetch(state) == [state EXCEPT !.isLoading = TRUE, !.error = NULL]

(* fetchRole after `await supabase.auth.getUser()`, isMounted.current      *)
(* being true.                                                             *)
afterGetUser(state, user) ==
    IF user = NULL
    THEN [state EXCEPT !.role = NULL, !.status = NULL, !.userId = NULL,
                       !.isLoading = FALSE]
    ELSE [state EXCEPT !.userId = user]

(* fetchRole after the awaited select of the profile, isMounted.current    *)
(* being true: try, catch and finally.                                     *)
afterProfile(state, outcome) ==
    IF outcome.error = "PGRST116"
    THEN [state EXCEPT !.role = "user", !.status = "active", !.isLoading = FALSE]
    ELSE IF outcome.error # NULL
    THEN [state EXCEPT !.error = "Failed to load user role", !.role = NULL,
                       !.status = NULL, !.isLoading = FALSE]
    ELSE IF Len(outcome.profile) > 0
    THEN [state EXCEPT !.role = outcome.profile[1].role,
                       !.status = outcome.profile[1].status,
                       !.isLoading = FALSE]
    ELSE [state EXCEPT !.isLoading = FALSE]

(* The cleanup of the effect that is in place marks its run. *)
cleanedUp(runs) ==
    [i \in 1..Len(runs) |->
        IF i = Len(runs) THEN [runs[i] EXCEPT !.cleanedUp = TRUE] ELSE runs[i]]

InitHook ==
    /\ call = NoCall
    /\ ret = UNDEFINED
    /\ NoLimiter
    /\ NoForm
    /\ hookState = [role |-> NULL, status |-> NULL, userId |-> NULL,
                    isLoading |-> TRUE, error |-> NULL]
    /\ isMounted = TRUE
    /\ mounted = TRUE
    /\ fetches = <<[pc |-> "getUser", cleanedUp |-> FALSE]>>
    /\ lastUpdate = [by |-> 1, afterCleanup |-> FALSE]

(* refetch(): the trigger changes, the old effect's cleanup runs and the   *)
(* effect runs again.                                                      *)
Refetch ==
    /\ mounted
    /\ Len(fetches) < MaxFetches
    /\ isMounted' = TRUE
    /\ hookState' = startFetch(hookState)
    /\ fetches' = Append(cleanedUp(fetches), [pc |-> "getUser", cleanedUp |-> FALSE])
    /\ lastUpdate' = [by |-> Len(fetches) + 1, afterCleanup |-> FALSE]
    /\ UNCHANGED <<call, ret, limiter, wordForm, mounted>>

Unmount ==
    /\ mounted
    /\ mounted' = FALSE
    /\ isMounted' = FALSE
    /\ fetches' = cleanedUp(fetches)
    /\ UNCHANGED <<call, ret, limiter, wordForm, hookState, lastUpdate>>

GetUserResolves ==
    \E i \in 1..Len(fetches), user \in {NULL, "user-1"} :
        /\ fetches[i].pc = "getUser"
        /\ IF ~isMounted
           THEN /\ fetches' = [fetches EXCEPT ![i].pc = "done"]
                /\ UNCHANGED <<hookState, lastUpdate>>
           ELSE /\ hookState' = afterGetUser(hookState, user)
                /\ fetches' = [fetches EXCEPT
                                  ![i].pc = IF user = NULL THEN "done" ELSE "profile"]
                /\ lastUpdate' = [by |-> i, afterCleanup |-> fetches[i].cleanedUp]
        /\ UNCHANGED <<call, ret, limiter, wordForm, isMounted, mounted>>

ProfileResolves ==
    \E i \in 1..Len(fetches), outcome \in ProfileOutcomes :
        /\ fetches[i].pc = "profile"
        /\ fetches' = [fetches EXCEPT ![i].pc = "done"]
        /\ IF ~isMounted
           THEN UNCHANGED <<hookState, lastUpdate>>
           ELSE /\ hookState' = afterProfile(hookState, outcome)
                /\ lastUpdate' = [by |-> i, afterCleanup |-> fetches[i].cleanedUp]
        /\ UNCHANGED <<call, ret, limiter, wordForm, isMounted, mounted>>

NextHook ==
    \/ Refetch
    \/ Unmount
    \/ GetUserResolves
    \/ ProfileResolves

SpecHook == InitHook /\ [][NextHook]_vars

(***************************************************************************)
(* Vocabulary of the properties.                                           *)
(***************************************************************************)

(* The text the keyword search runs over: the tags joined by a space, in   *)
(* lower case.                                                             *)
TagText(tags) == toLowerCase(join(tags))

Mentions(tags, words) == \E w \in words : includes(TagText(tags), w)

GodanWords == {<<"g","o","d","a","n">>, <<"v","5">>}
IchidanWords == {<<"i","c","h","i","d","a","n">>, <<"v","1">>}
SuruWords == {<<"s","u","r","u">>, <<"v","s">>}
KuruWords == {<<"k","u","r","u">>, <<"v","k">>}

NoVerbTypeWord(tags) ==
    ~Mentions(tags, GodanWords \cup IchidanWords \cup SuruWords \cup KuruWords)

(* The character before the final one, or "" when there is none. *)
Penultimate(r) == IF Len(r) >= 2 THEN r[Len(r) - 1] ELSE ""

Called(fn) == call.fn = fn

(***************************************************************************)
(* C1.  detectVerbType settles the verb type from the tags alone, in the   *)
(* order godan/v5, ichidan/v1, suru/vs, kuru/vk, whenever the joined       *)
(* lower-cased tags contain one of these words; the reading then has no    *)
(* say.                                                                    *)
(***************************************************************************)
C1_TagOverride ==
    Called("detectVerbType") =>
        LET g == Mentions(call.tags, GodanWords)
            i == Mentions(call.tags, IchidanWords)
            s == Mentions(call.tags, SuruWords)
            k == Mentions(call.tags, KuruWords)
        IN  /\ g => ret = "godan"
            /\ ~g /\ i => ret = "ichidan"
            /\ ~g /\ ~i /\ s => ret = "suru"
            /\ ~g /\ ~i /\ ~s /\ k => ret = "kuru"

(* Tags naming both ichidan and godan, on a reading whose ending alone     *)
(* would say ichidan: the answer is godan.                                 *)
C1_Witness ==
    /\ Called("detectVerbType")
    /\ Mentions(call.tags, GodanWords)
    /\ Mentions(call.tags, IchidanWords)
    /\ call.hiragana = <<"ki", "ru">>
    /\ ret = "godan"

(***************************************************************************)
(* C2.  With no verb-type word in the tags, a reading ending in U+308B is  *)
(* ichidan when the character before the final one is in the ichidan set,  *)
(* and godan otherwise (the one-character reading included).               *)
(* The statement as claimed uses the 24-character set; the code's list     *)
(* has 26, U+3062 ("di") and U+308A ("ri") being the other two.            *)
(***************************************************************************)
ClaimedIchidanSet ==
    { "i", "ki", "gi", "shi", "ji", "chi", "ni", "hi", "bi", "pi",
      "e", "ke", "ge", "se", "ze", "te", "de", "ne", "he", "be", "pe", "me",
      "re", "mi" }

RuFinalFallback(ichidanSet) ==
    (/\ Called("detectVerbType")
     /\ NoVerbTypeWord(call.tags)
     /\ endsWith(call.hiragana, <<"ru">>))
    => ret = IF Penultimate(call.hiragana) \in ichidanSet THEN "ichidan" ELSE "godan"

(* C2 as claimed: refuted by a stem ending in "ri" or "di". *)
C2_Claimed == RuFinalFallback(ClaimedIchidanSet)

(* C2 as amended: the set also holds "ri" and "di". *)
C2_RuFinal == RuFinalFallback(ClaimedIchidanSet \cup {"ri", "di"})

(* A stem ending in "ri", one of the two characters the amendment adds,   *)
(* is answered ichidan.                                                    *)
C2_Witness ==
    /\ Called("detectVerbType")
    /\ NoVerbTypeWord(call.tags)
    /\ call.hiragana = <<"no", "ri", "ru">>
    /\ ret = "ichidan"

(***************************************************************************)
(* C3.  With no verb-type word in the tags, a reading ending in U+3059     *)
(* U+308B is suru, and the readings "ku ru" and "KANJI_KURU ru" are kuru.  *)
(* Stated as claimed; the code answers these readings in the U+308B branch *)
(* before it reaches the tests of lines 73-79.                             *)
(***************************************************************************)
C3_SuruKuruFallback ==
    (Called("detectVerbType") /\ NoVerbTypeWord(call.tags)) =>
        /\ endsWith(call.hiragana, <<"su", "ru">>) => ret = "suru"
        /\ call.hiragana \in {<<"ku", "ru">>, <<"KANJI_KURU", "ru">>} => ret = "kuru"

(***************************************************************************)
(* C4.  detectCategory is first-match-wins over the 13-rule table: its     *)
(* result on every part-of-speech list is the result of the first rule of  *)
(* the table one of whose words occurs in the joined lower-cased text, and *)
(* "other" when no rule matches.                                           *)
(***************************************************************************)
Verb(t) == [category |-> "verb", verbType |-> t]
Plain(c) == [category |-> c, verbType |-> UNDEFINED]

ClassifyRules ==
    << [words |-> IchidanWords, result |-> Verb("ichidan")],
       [words |-> GodanWords, result |-> Verb("godan")],
       [words |-> {<<"s","u","r","u">>, <<"v","s","-">>}, result |-> Verb("suru")],
       [words |-> KuruWords, result |-> Verb("kuru")],
       [words |-> {<<"c","o","u","n","t","e","r">>}, result |-> Plain("counter")],
       [words |-> {<<"a","d","v","e","r","b">>}, result |-> Plain("adverb")],
       [words |-> {<<"p","a","r","t","i","c","l","e">>}, result |-> Plain("particle")],
       [words |-> {<<"e","x","p","r","e","s","s","i","o","n">>},
        result |-> Plain("expression")],
       [words |-> {<<"i","-","a","d","j","e","c","t","i","v","e">>, <<"a","d","j","-","i">>},
        result |-> Plain("adjective-i")],
       [words |-> {<<"n","a","-","a","d","j","e","c","t","i","v","e">>,
                   <<"a","d","j","-","n","a">>},
        result |-> Plain("adjective-na")],
       [words |-> {<<"n","o","u","n">>}, result |-> Plain("noun")],
       [words |-> {<<"v","e","r","b">>}, result |-> Verb("godan")] >>

RulesHit(tags) ==
    {n \in 1..Len(ClassifyRules) : Mentions(tags, ClassifyRules[n].words)}

FirstRule(tags) == CHOOSE n \in RulesHit(tags) : \A m \in RulesHit(tags) : n <= m

Classify(tags) ==
    IF RulesHit(tags) = {} THEN Plain("other") ELSE ClassifyRules[FirstRule(tags)].result

C4_FirstMatchWins ==
    Called("detectCategory") => ret = Classify(call.partsOfSpeech)

(* A list that two rules match ("noun verb": rules 11 and 12) resolves to  *)
(* the earlier one.                                                        *)
C4_Witness ==
    /\ Called("detectCategory")
    /\ RulesHit(call.partsOfSpeech) = {11, 12}
    /\ ret = Plain("noun")

(***************************************************************************)
(* C5.  A part-of-speech text that contains "adverb", none of the verb     *)
(* sub-type words (ichidan, v1, godan, v5, suru, vs-, kuru, vk) and not    *)
(* "counter" is classified adverb with no verb type, also when it contains *)
(* "verb" elsewhere.                                                       *)
(***************************************************************************)
C5_AdverbBeforeVerb ==
    (/\ Called("detectCategory")
     /\ Mentions(call.partsOfSpeech, {<<"a","d","v","e","r","b">>})
     /\ ~Mentions(call.partsOfSpeech,
                  IchidanWords \cup GodanWords \cup KuruWords
                      \cup {<<"s","u","r","u">>, <<"v","s","-">>,
                            <<"c","o","u","n","t","e","r">>}))
    => (ret.category = "adverb" /\ ret.verbType = UNDEFINED)

(* The tag "adverbial-verb-form", which holds "verb" twice, is an adverb.  *)
C5_Witness ==
    /\ Called("detectCategory")
    /\ call.partsOfSpeech =
         << <<"a","d","v","e","r","b","i","a","l","-","v","e","r","b","-","f","o","r","m">> >>
    /\ ret = [category |-> "adverb", verbType |-> UNDEFINED]

(***************************************************************************)
(* Reading a table.                                                        *)
(***************************************************************************)
Texts(table) == [n \in 1..Len(table) |-> table[n].japanese]

Named(table) == {<<table[n].form, table[n].japanese>> : n \in 1..Len(table)}

TextOf(table, form) ==
    table[CHOOSE n \in 1..Len(table) : table[n].form = form].japanese

GeneratedAs(verbType) ==
    Called("generateConjugations") /\ call.verbType = verbType

(***************************************************************************)
(* C6.  generateConjugations(reading, "ichidan") returns 15 forms whose    *)
(* first surface text is the reading, for every reading.  Stated as        *)
(* claimed; the code rebuilds the first form as the reading without its    *)
(* last character followed by U+308B.                                      *)
(***************************************************************************)
C6_IchidanDictionaryIsReading ==
    GeneratedAs("ichidan") => (Len(ret) = 15 /\ ret[1].japanese = call.hiragana)

(***************************************************************************)
(* C7.  The godan table of "no mu", and for each of the nine endings every *)
(* form is the stem, the fragment of the ending's row and the suffix of    *)
(* the form.  The rows are written here from the kana grid: the a-, i-,    *)
(* e- and o-column character of the ending's consonant, and the euphonic   *)
(* te/ta of its class.                                                     *)
(***************************************************************************)
Grid ==
    [ u   |-> [a |-> "wa", i |-> "i",   e |-> "e",  o |-> "o"],
      ku  |-> [a |-> "ka", i |-> "ki",  e |-> "ke", o |-> "ko"],
      gu  |-> [a |-> "ga", i |-> "gi",  e |-> "ge", o |-> "go"],
      su  |-> [a |-> "sa", i |-> "shi", e |-> "se", o |-> "so"],
      tsu |-> [a |-> "ta", i |-> "chi", e |-> "te", o |-> "to"],
      nu  |-> [a |-> "na", i |-> "ni",  e |-> "ne", o |-> "no"],
      bu  |-> [a |-> "ba", i |-> "bi",  e |-> "be", o |-> "bo"],
      mu  |-> [a |-> "ma", i |-> "mi",  e |-> "me", o |-> "mo"],
      ru  |-> [a |-> "ra", i |-> "ri",  e |-> "re", o |-> "ro"] ]

TeOf(ending) ==
    CASE ending \in {"u", "tsu", "ru"} -> <<"xtsu", "te">>
      [] ending \in {"nu", "bu", "mu"} -> <<"n", "de">>
      [] ending = "ku" -> <<"i", "te">>
      [] ending = "gu" -> <<"i", "de">>
      [] ending = "su" -> <<"shi", "te">>

TaOf(ending) ==
    CASE ending \in {"u", "tsu", "ru"} -> <<"xtsu", "ta">>
      [] ending \in {"nu", "bu", "mu"} -> <<"n", "da">>
      [] ending = "ku" -> <<"i", "ta">>
      [] ending = "gu" -> <<"i", "da">>
      [] ending = "su" -> <<"shi", "ta">>

(* The forms of stem + ending with the te and ta fragments given. *)
GodanForms(stem, ending, te, ta) ==
    LET g == Grid[ending]
    IN  { <<"Dictionary", stem \o <<ending>>>>,
          <<"Masu", stem \o <<g.i, "ma", "su">>>>,
          <<"Te-form", stem \o te>>,
          <<"Ta-form", stem \o ta>>,
          <<"Mashita", stem \o <<g.i, "ma", "shi", "ta">>>>,
          <<"Nai-form", stem \o <<g.a, "na", "i">>>>,
          <<"Masen", stem \o <<g.i, "ma", "se", "n">>>>,
          <<"Nakatta", stem \o <<g.a, "na", "ka", "xtsu", "ta">>>>,
          <<"Potential", stem \o <<g.e, "ru">>>>,
          <<"Passive", stem \o <<g.a, "re", "ru">>>>,
          <<"Causative", stem \o <<g.a, "se", "ru">>>>,
          <<"Imperative", stem \o <<g.e>>>>,
          <<"Volitional", stem \o <<g.o, "u">>>>,
          <<"Conditional", stem \o <<g.e, "ba">>>>,
          <<"Tara-form", stem \o ta \o <<"ra">>>> }

Iku == {<<"i", "ku">>, <<"KANJI_IKU", "ku">>}

NomuForms ==
    (call.hiragana = <<"no", "mu">>) =>
        /\ TextOf(ret, "Dictionary") = <<"no", "mu">>
        /\ TextOf(ret, "Masu") = <<"no", "mi", "ma", "su">>
        /\ TextOf(ret, "Te-form") = <<"no", "n", "de">>
        /\ TextOf(ret, "Ta-form") = <<"no", "n", "da">>
        /\ TextOf(ret, "Nai-form") = <<"no", "ma", "na", "i">>
        /\ TextOf(ret, "Potential") = <<"no", "me", "ru">>
        /\ TextOf(ret, "Imperative") = <<"no", "me">>
        /\ TextOf(ret, "Volitional") = <<"no", "mo", "u">>
        /\ TextOf(ret, "Conditional") = <<"no", "me", "ba">>

TableEnding(r) == Len(r) >= 1 /\ r[Len(r)] \in GodanEndings

(* C7 as claimed: every form of every reading with a table ending is built *)
(* from the row of its ending.  Refuted by the te and ta of "i ku".        *)
C7_Claimed ==
    GeneratedAs("godan") =>
        /\ NomuForms
        /\ TableEnding(call.hiragana) =>
              LET stem == sliceInit(call.hiragana)
                  ending == call.hiragana[Len(call.hiragana)]
              IN  Named(ret) = GodanForms(stem, ending, TeOf(ending), TaOf(ending))

(* C7 as amended: the same, except that the two readings "i ku" and        *)
(* "KANJI_IKU ku" take xtsu-te and xtsu-ta (and so xtsu-ta-ra) in place of *)
(* the ku row's i-te and i-ta.                                             *)
C7_GodanRows ==
    GeneratedAs("godan") =>
        /\ NomuForms
        /\ TableEnding(call.hiragana) =>
              LET stem == sliceInit(call.hiragana)
                  ending == call.hiragana[Len(call.hiragana)]
                  te == IF call.hiragana \in Iku THEN <<"xtsu", "te">> ELSE TeOf(ending)
                  ta == IF call.hiragana \in Iku THEN <<"xtsu", "ta">> ELSE TaOf(ending)
              IN  /\ Len(ret) = 15
                  /\ Named(ret) = GodanForms(stem, ending, te, ta)

C7_Witness ==
    /\ GeneratedAs("godan")
    /\ call.hiragana = <<"no", "mu">>
    /\ TextOf(ret, "Te-form") = <<"no", "n", "de">>
    /\ TextOf(ret, "Volitional") = <<"no", "mo", "u">>

(***************************************************************************)
(* C8.  As godan, the readings "i ku" and "KANJI_IKU ku" have the te-form  *)
(* stem + xtsu-te and the ta-form stem + xtsu-ta, never the ku row's i-te  *)
(* and i-ta; every other reading ending in "ku" has stem + i-te and        *)
(* stem + i-ta.                                                            *)
(***************************************************************************)
C8_IkuOverride ==
    (GeneratedAs("godan") /\ endsWith(call.hiragana, <<"ku">>)) =>
        LET stem == sliceInit(call.hiragana)
            te == TextOf(ret, "Te-form")
            ta == TextOf(ret, "Ta-form")
        IN  IF call.hiragana \in Iku
            THEN /\ te = stem \o <<"xtsu", "te">>
                 /\ ta = stem \o <<"xtsu", "ta">>
                 /\ te # stem \o <<"i", "te">>
                 /\ ta # stem \o <<"i", "ta">>
            ELSE /\ te = stem \o <<"i", "te">>
                 /\ ta = stem \o <<"i", "ta">>

C8_Witness ==
    /\ GeneratedAs("godan")
    /\ call.hiragana = <<"KANJI_IKU", "ku">>
    /\ TextOf(ret, "Te-form") = <<"KANJI_IKU", "xtsu", "te">>
    /\ TextOf(ret, "Ta-form") = <<"KANJI_IKU", "xtsu", "ta">>

(***************************************************************************)
(* C9.  generateConjugations(reading, "kuru") is the same 15-form table    *)
(* for every reading.                                                      *)
(***************************************************************************)
KuruTexts ==
    << <<"ku","ru">>, <<"ki","ma","su">>, <<"ki","te">>, <<"ki","ta">>,
       <<"ki","ma","shi","ta">>, <<"ko","na","i">>, <<"ki","ma","se","n">>,
       <<"ko","na","ka","xtsu","ta">>, <<"ko","ra","re","ru">>, <<"ko","ra","re","ru">>,
       <<"ko","sa","se","ru">>, <<"ko","i">>, <<"ko","yo","u">>, <<"ku","re","ba">>,
       <<"ki","ta","ra">> >>

C9_KuruIgnoresReading ==
    GeneratedAs("kuru") => (Len(ret) = 15 /\ Texts(ret) = KuruTexts)

(* The table of a reading that is not "ku ru" at all. *)
C9_Witness ==
    /\ GeneratedAs("kuru")
    /\ call.hiragana = <<"no", "mu">>
    /\ ret[1].japanese = <<"ku", "ru">>
    /\ ret[15].japanese = <<"ki", "ta", "ra">>

(***************************************************************************)
(* C10.  Generation returns the empty table exactly when the category is   *)
(* none of verb, adjective-i, adjective-na, or the category is verb and    *)
(* the verb type is null, empty or none of the four types; in every other  *)
(* case the table is not empty.  generateConjugations called directly is   *)
(* empty exactly for a verb type outside the four.                         *)
(***************************************************************************)
FourVerbTypes == {"ichidan", "godan", "suru", "kuru"}

C10_EmptyTable ==
    /\ Called("WordDetailDialog") =>
          (ret = <<>> <=>
              \/ call.word.category \notin {"verb", "adjective-i", "adjective-na"}
              \/ /\ call.word.category = "verb"
                 /\ call.word.verb_type \notin FourVerbTypes)
    /\ Called("generateConjugations") =>
          (ret = <<>> <=> call.verbType \notin FourVerbTypes)

(* A verb whose verb type is null has the empty table. *)
C10_Witness ==
    /\ Called("WordDetailDialog")
    /\ call.word.category = "verb"
    /\ call.word.verb_type = NULL
    /\ ret = <<>>


(***************************************************************************)
(* C12.  A table that is not empty has 15 forms for each of the four verb  *)
(* types and 10 for adjective-i and adjective-na, whatever the reading,    *)
(* and its first form is named "Dictionary".                               *)
(***************************************************************************)
TableOf(n) == Len(ret) = n /\ ret[1].form = "Dictionary"

C12_FixedLength ==
    /\ (Called("generateConjugations") /\ call.verbType \in FourVerbTypes) => TableOf(15)
    /\ Called("generateIAdjectiveConjugations") => TableOf(10)
    /\ Called("generateNaAdjectiveConjugations") => TableOf(10)
    /\ (Called("WordDetailDialog") /\ ret # <<>>) =>
          IF call.word.category = "verb" THEN TableOf(15) ELSE TableOf(10)

(* The na-adjective table of the empty reading has 10 forms too. *)
C12_Witness ==
    /\ Called("generateNaAdjectiveConjugations")
    /\ call.hiragana = <<>>
    /\ Len(ret) = 10
    /\ ret[10].form = "Attributive"


(***************************************************************************)
(* C13.  For godan and suru, and for adjective-i and adjective-na, the     *)
(* first surface text of the table is the reading itself, for every        *)
(* reading.  Stated as claimed; the suru table starts with the stem        *)
(* (without a trailing U+3059) followed by U+3059 U+308B.                  *)
(***************************************************************************)
C13_DictionaryIsReading ==
    (\/ GeneratedAs("godan")
     \/ GeneratedAs("suru")
     \/ Called("generateIAdjectiveConjugations")
     \/ Called("generateNaAdjectiveConjugations"))
    => ret[1].japanese = call.hiragana

(***************************************************************************)
(* C14.  For a reading P + U+3059 U+308B (P possibly empty), the suru      *)
(* table is P followed by each entry of the fixed template, in order.      *)
(***************************************************************************)
SuruTemplate ==
    << <<"su","ru">>, <<"shi","ma","su">>, <<"shi","te">>, <<"shi","ta">>,
       <<"shi","ma","shi","ta">>, <<"shi","na","i">>, <<"shi","ma","se","n">>,
       <<"shi","na","ka","xtsu","ta">>, <<"de","ki","ru">>, <<"sa","re","ru">>,
       <<"sa","se","ru">>, <<"shi","ro">>, <<"shi","yo","u">>, <<"su","re","ba">>,
       <<"shi","ta","ra">> >>

Prefixed(p, suffixes) == [n \in 1..Len(suffixes) |-> p \o suffixes[n]]

(* The reading without its last n characters (n at most its length). *)
Without(r, n) == SubSeq(r, 1, Len(r) - n)

C14_SuruTemplate ==
    (GeneratedAs("suru") /\ endsWith(call.hiragana, <<"su", "ru">>)) =>
        Texts(ret) = Prefixed(Without(call.hiragana, 2), SuruTemplate)

(* A compound: P is not empty. *)
C14_Witness ==
    /\ GeneratedAs("suru")
    /\ call.hiragana = <<"no", "su", "ru">>
    /\ ret[9].japanese = <<"no", "de", "ki", "ru">>

(***************************************************************************)
(* C15.  For a reading S + U+3044 the adjective-i table is the reading and *)
(* then S with the nine suffixes, in order; S is the reading without       *)
(* exactly its final character.                                            *)
(***************************************************************************)
IAdjectiveSuffixes ==
    << <<"i">>, <<"i","de","su">>, <<"ka","xtsu","ta">>, <<"ka","xtsu","ta","de","su">>,
       <<"ku","na","i">>, <<"ku","na","i","de","su">>, <<"ku","na","ka","xtsu","ta">>,
       <<"ku","te">>, <<"ku">>, <<"ke","re","ba">> >>

C15_IAdjective ==
    (Called("generateIAdjectiveConjugations") /\ endsWith(call.hiragana, <<"i">>)) =>
        /\ Texts(ret) = Prefixed(Without(call.hiragana, 1), IAdjectiveSuffixes)
        /\ ret[1].japanese = call.hiragana

(* A stem that itself ends in U+3044: only one is removed. *)
C15_Witness ==
    /\ Called("generateIAdjectiveConjugations")
    /\ call.hiragana = <<"no", "i", "i">>
    /\ ret[3].japanese = <<"no", "i", "ka", "xtsu", "ta">>

(***************************************************************************)
(* C16.  The adjective-na table strips nothing: its ten forms are the      *)
(* reading followed by the ten suffixes, in order, the first one empty.    *)
(***************************************************************************)
NaAdjectiveSuffixes ==
    << <<>>, <<"de","su">>, <<"da","xtsu","ta">>, <<"de","shi","ta">>, <<"ja","na","i">>,
       <<"ja","a","ri","ma","se","n">>, <<"ja","na","ka","xtsu","ta">>, <<"de">>,
       <<"ni">>, <<"na">> >>

C16_NaAdjective ==
    Called("generateNaAdjectiveConjugations") =>
        Texts(ret) = Prefixed(call.hiragana, NaAdjectiveSuffixes)

C16_Witness ==
    /\ Called("generateNaAdjectiveConjugations")
    /\ call.hiragana = <<"no", "i">>
    /\ ret[10].japanese = <<"no", "i", "na">>


(***************************************************************************)
(* C17.  The functions return a value on every input.  detectVerbType      *)
(* returns a verb type or null, and null exactly when the tags hold no     *)
(* verb-type word and the reading does not end in one of the nine          *)
(* characters U+308B, U+3046, U+304F, U+3059, U+3064, U+306C, U+3076,      *)
(* U+3080, U+3050; detectCategory of the empty list is "other"; every      *)
(* generator returns a table.                                              *)
(***************************************************************************)
C17_Total ==
    /\ Called("detectVerbType") =>
          /\ ret \in FourVerbTypes \cup {NULL}
          /\ ret = NULL <=> (NoVerbTypeWord(call.tags) /\ ~TableEnding(call.hiragana))
    /\ Called("detectCategory") =>
          /\ ret.category \in Categories
          /\ call.partsOfSpeech = <<>> => ret = Plain("other")
    /\ (\/ Called("generateConjugations")
        \/ Called("generateIAdjectiveConjugations")
        \/ Called("generateNaAdjectiveConjugations")
        \/ Called("WordDetailDialog"))
       => (DOMAIN ret = 1..Len(ret) /\ Len(ret) \in {0, 10, 15})

(* The empty reading with no tags is undetermined. *)
C17_Witness ==
    /\ Called("detectVerbType")
    /\ call.hiragana = <<>>
    /\ call.tags = <<>>
    /\ ret = NULL

(***************************************************************************)
(* C18.  detectCategory returns one of the nine categories; it returns a   *)
(* verb type exactly when the category is verb, and then one of the four.  *)
(***************************************************************************)
C18_CategoryAndVerbType ==
    Called("detectCategory") =>
        /\ ret.category \in
             {"verb", "noun", "adjective-i", "adjective-na", "adverb", "particle",
              "expression", "counter", "other"}
        /\ ret.verbType # UNDEFINED <=> ret.category = "verb"
        /\ ret.category = "verb" => ret.verbType \in FourVerbTypes

(* The generic "verb" rule gives a verb type too. *)
C18_Witness ==
    /\ Called("detectCategory")
    /\ call.partsOfSpeech = << <<"v","e","r","b">> >>
    /\ ret.category = "verb"
    /\ ret.verbType = "godan"


(***************************************************************************)
(* C19.  Rate limiter with maxRequests >= 1: for each identifier, within   *)
(* one window (no reset, clock not past the end of the window) exactly the *)
(* first maxRequests calls of check(id) return true and every later call   *)
(* returns false, however calls for other identifiers are interleaved; a   *)
(* check for one identifier leaves every other identifier's entry as it    *)
(* was.  calls[id].n is the callers' own count of their calls in the       *)
(* window, call.before the Map as it was when the call was made.           *)
(***************************************************************************)
C19_FirstMaxRequests ==
    (Called("check") /\ maxRequests >= 1) =>
        LET id == call.identifier
        IN  /\ ret = (calls[id].n <= maxRequests)
            /\ \A other \in Ids \ {id} :
                  /\ other \in DOMAIN tracker <=> other \in DOMAIN call.before
                  /\ other \in DOMAIN tracker => tracker[other] = call.before[other]

(* One identifier has just been refused on its call number maxRequests + 1 *)
(* while another identifier, whose calls came in between, is still below   *)
(* its limit.                                                              *)
C19_Witness ==
    /\ Called("check")
    /\ maxRequests >= 1
    /\ ret = FALSE
    /\ calls[call.identifier].n = maxRequests + 1
    /\ \E other \in DOMAIN calls \ {call.identifier} :
          /\ calls[other].n < maxRequests
          /\ calls[other].since >= calls[call.identifier].since

(***************************************************************************)
(* C20.  Window expiry: a check(id) made at a time strictly later than     *)
(* the entry's resetAt starts a new window: it returns true and the entry  *)
(* becomes { count: 1, resetAt: now + windowMs }.  A check made at a time  *)
(* not later than resetAt never resets the count, so an exhausted          *)
(* identifier stays blocked until the window has expired.                  *)
(***************************************************************************)
C20_WindowExpiry ==
    (Called("check") /\ call.identifier \in DOMAIN call.before) =>
        LET id == call.identifier
            old == call.before[id]
        IN  /\ call.at > old.resetAt =>
                  /\ ret = TRUE
                  /\ tracker[id] = [count |-> 1, resetAt |-> call.at + windowMs]
            /\ call.at <= old.resetAt =>
                  /\ tracker[id].resetAt = old.resetAt
                  /\ tracker[id].count >= old.count
                  /\ old.count >= maxRequests => (ret = FALSE /\ tracker[id] = old)

(* An exhausted identifier is let in again by the first check after its    *)
(* window has expired.                                                     *)
C20_Witness ==
    /\ Called("check")
    /\ call.identifier \in DOMAIN call.before
    /\ maxRequests >= 1
    /\ call.before[call.identifier].count >= maxRequests
    /\ call.at > call.before[call.identifier].resetAt
    /\ ret = TRUE
    /\ tracker[call.identifier].count = 1


(***************************************************************************)
(* C21.  reset: for every identifier string id, the empty string included, *)
(* reset(id) removes exactly the entry of id and leaves every other        *)
(* identifier's entry unchanged; reset() without argument removes all      *)
(* entries; the next check of an identifier whose entry was removed        *)
(* returns true.                                                           *)
(***************************************************************************)
C21_ResetFrame ==
    /\ Called("reset") =>
          IF call.identifier = UNDEFINED
          THEN tracker = << >>
          ELSE /\ call.identifier \notin DOMAIN tracker
               /\ \A other \in Ids \ {call.identifier} :
                     /\ other \in DOMAIN tracker <=> other \in DOMAIN call.before
                     /\ other \in DOMAIN tracker => tracker[other] = call.before[other]
    /\ (Called("check") /\ call.identifier \notin DOMAIN call.before) => ret = TRUE


(***************************************************************************)
(* C22.  checkRateLimitWithClient / checkRateLimit failure policy: when    *)
(* the RPC returns an error, returns null data, or something throws, the   *)
(* result is success = true with remaining = maxRequests if failOpen is    *)
(* true or undefined, and success = false with remaining = 0 if failOpen   *)
(* is false, with resetIn = windowSeconds in both cases; nothing is thrown *)
(* to the caller.  When the RPC returns data without error the result is   *)
(* exactly the RPC's success, remaining and reset_in.                      *)
(***************************************************************************)
RpcFailed(c) ==
    \/ c.client = "throws"
    \/ c.rpc.outcome = "throws"
    \/ c.rpc.error
    \/ c.rpc.data = << >>

C22_FailurePolicy ==
    (Called("checkRateLimitWithClient") \/ Called("checkRateLimit")) =>
        /\ ret # Thrown
        /\ IF RpcFailed(call)
           THEN /\ call.config.failOpen \in {"true", UNDEFINED} =>
                      ret = [success |-> TRUE,
                             remaining |-> call.config.maxRequests,
                             resetIn |-> call.config.windowSeconds]
                /\ call.config.failOpen = "false" =>
                      ret = [success |-> FALSE, remaining |-> 0,
                             resetIn |-> call.config.windowSeconds]
           ELSE ret = [success |-> call.rpc.data[1].success,
                       remaining |-> call.rpc.data[1].remaining,
                       resetIn |-> call.rpc.data[1].reset_in]

(* The RPC threw, failOpen was left undefined, and the request was let in  *)
(* with the whole quota.                                                   *)
C22_Witness ==
    /\ Called("checkRateLimitWithClient")
    /\ call.rpc.outcome = "throws"
    /\ call.config.failOpen = UNDEFINED
    /\ call.config.maxRequests > 0
    /\ ret.success = TRUE
    /\ ret.remaining = call.config.maxRequests


(***************************************************************************)
(* C23.  AI feature gating: a feature is reported enabled for the current  *)
(* user only if a user is signed in, the global setting of the feature is  *)
(* not disabled (no global row counts as enabled) and the user has a       *)
(* user_ai_features row with enabled = true; isAIFeatureEnabled(key),      *)
(* getAllAIFeatureStatuses()[key] and the hook's features map agree on     *)
(* this for every feature key.                                             *)
(***************************************************************************)
Granted(db, key) ==
    /\ db.user
    /\ ~(key \in DOMAIN db.globalRows /\ ~db.globalRows[key])
    /\ key \in DOMAIN db.userRows
    /\ db.userRows[key]

C23_FeatureGating ==
    /\ Called("isAIFeatureEnabled") =>
          (ret => Granted(call.db, call.featureKey))
    /\ Called("getAllAIFeatureStatuses") =>
          \A key \in AI_FEATURE_KEYS : ret[key] => Granted(call.db, key)
    /\ Called("useAIFeatures") =>
          \A key \in AI_FEATURE_KEYS :
              useAIFeature(ret, key) => Granted(call.db, key)


(***************************************************************************)
(* C24.  As godan, a reading whose final character is none of the nine     *)
(* table endings (the empty reading too) takes the fragments of the "ru"   *)
(* row (ri, xtsu-te, xtsu-ta, ra, re, ro, re, re) on the reading without   *)
(* its last character, and the table still has 15 forms with the reading   *)
(* at index 0.                                                             *)
(***************************************************************************)
RuRowForms(reading) ==
    LET stem == sliceInit(reading)
    IN  { <<"Dictionary", reading>>,
          <<"Masu", stem \o <<"ri", "ma", "su">>>>,
          <<"Te-form", stem \o <<"xtsu", "te">>>>,
          <<"Ta-form", stem \o <<"xtsu", "ta">>>>,
          <<"Mashita", stem \o <<"ri", "ma", "shi", "ta">>>>,
          <<"Nai-form", stem \o <<"ra", "na", "i">>>>,
          <<"Masen", stem \o <<"ri", "ma", "se", "n">>>>,
          <<"Nakatta", stem \o <<"ra", "na", "ka", "xtsu", "ta">>>>,
          <<"Potential", stem \o <<"re", "ru">>>>,
          <<"Passive", stem \o <<"ra", "re", "ru">>>>,
          <<"Causative", stem \o <<"ra", "se", "ru">>>>,
          <<"Imperative", stem \o <<"re">>>>,
          <<"Volitional", stem \o <<"ro", "u">>>>,
          <<"Conditional", stem \o <<"re", "ba">>>>,
          <<"Tara-form", stem \o <<"xtsu", "ta", "ra">>>> }

C24_RuRowFallback ==
    (GeneratedAs("godan") /\ ~TableEnding(call.hiragana)) =>
        /\ Len(ret) = 15
        /\ ret[1].form = "Dictionary"
        /\ ret[1].japanese = call.hiragana
        /\ Named(ret) = RuRowForms(call.hiragana)

(* The reading "no i" conjugated as godan: "no ri ma su", "no xtsu te". *)
C24_Witness ==
    /\ GeneratedAs("godan")
    /\ call.hiragana = <<"no", "i">>
    /\ TextOf(ret, "Masu") = <<"no", "ri", "ma", "su">>
    /\ TextOf(ret, "Te-form") = <<"no", "xtsu", "te">>


(***************************************************************************)
(* C25.  The classifier delegates verb sub-typing to the detector's rules: *)
(* for every tag set that detectCategory classifies as verb, its verbType  *)
(* is detectVerbType's tag-based result on the same tags (tag sets with    *)
(* both an ichidan/v1 and a godan/v5 keyword, or with "vs" but not "vs-",  *)
(* included).  The tag-based result is the one detectVerbType gives        *)
(* whenever a tag names a verb type; the reading plays no part in it.      *)
(***************************************************************************)
C25_SameVerbType ==
    (/\ Called("detectCategory")
     /\ ret.category = "verb"
     /\ ~NoVerbTypeWord(call.partsOfSpeech)) =>
        \A reading \in Readings :
            ret.verbType = detectVerbType(reading, call.partsOfSpeech)


(***************************************************************************)
(* C26.  WordForm.selectResult uses the lookup's hint as it is: a          *)
(* result.category that is present and not "other" becomes the form's      *)
(* category without being derived again from the parts of speech, and a    *)
(* result.verbType that is present is kept; detectVerbType is called only  *)
(* when the resulting category is verb and no verbType was supplied, so a  *)
(* selection that is not a verb and came without verbType ends with        *)
(* verbType = null.                                                        *)
(***************************************************************************)
C26_HintUsedDirectly ==
    Called("selectResult") =>
        LET result == call.result
            data == ret.formData
        IN  /\ (truthy(result.category) /\ result.category # "other")
                  => data.category = result.category
            /\ truthy(result.verbType) => data.verbType = result.verbType
            /\ ret.detectVerbTypeCalls > 0
                  => (data.category = "verb" /\ ~truthy(result.verbType))
            /\ (data.category # "verb" /\ ~truthy(result.verbType))
                  => data.verbType = NULL

(* The lookup said noun, the parts of speech say adverb: the form says     *)
(* noun, and no verb type was looked for.                                  *)
C26_Witness ==
    /\ Called("selectResult")
    /\ call.result.category = "noun"
    /\ call.result.partsOfSpeech = <<<<"a","d","v","e","r","b">>>>
    /\ call.result.verbType = UNDEFINED
    /\ ret.formData.category = "noun"
    /\ ret.formData.verbType = NULL
    /\ ret.detectVerbTypeCalls = 0


(***************************************************************************)
(* C27.  WordForm state invariant: from the empty form and with lookup     *)
(* results made by detectCategory, after any sequence of selectResult,     *)
(* handleCategoryChange and verb type select events, formData.verbType is  *)
(* non-null only if formData.category is verb; changing the category to a  *)
(* value other than verb clears verbType, and changing it to verb with no  *)
(* verbType and a non-empty reading sets verbType to                       *)
(* detectVerbType(reading, tags), the reading and tags being those of the  *)
(* selected result, which the form shows.                                  *)
(***************************************************************************)
C27_VerbTypeOnlyForVerb ==
    /\ formData.verbType # NULL => formData.category = "verb"
    /\ Called("handleCategoryChange") =>
          /\ formData.category = call.value
          /\ call.value # "verb" => formData.verbType = NULL
          /\ (/\ call.value = "verb"
              /\ call.before.verbType = NULL
              /\ call.before.hiragana # <<>>) =>
                 /\ Len(selectedResult) = 1
                 /\ formData.verbType =
                       detectVerbType(selectedResult[1].hiragana,
                                      selectedResult[1].tags)

(* "no mu" was selected as a noun with the tag v5 and then made a verb:    *)
(* the tag makes it godan.                                                 *)
C27_Witness ==
    /\ Called("handleCategoryChange")
    /\ call.value = "verb"
    /\ call.before.category = "noun"
    /\ call.before.verbType = NULL
    /\ call.before.hiragana = <<"no", "mu">>
    /\ Len(selectedResult) = 1
    /\ selectedResult[1].tags = <<<<"v", "5">>>>
    /\ formData.category = "verb"
    /\ formData.verbType = "godan"


(***************************************************************************)
(* C28.  In all four verb tables (ichidan; godan with the "i ku" override  *)
(* and the "ru" row fallback; suru; kuru) and for every reading: the       *)
(* Tara-form is the Ta-form followed by "ra"; Masu, Mashita and Masen      *)
(* share one stem (X + ma-su, X + ma-shi-ta, X + ma-se-n); Nai-form and    *)
(* Nakatta share one stem (Y + na-i, Y + na-ka-xtsu-ta); and the form      *)
(* names are the same 15 labels in the same order for all four types.      *)
(***************************************************************************)
FormNames ==
    <<"Dictionary", "Masu", "Te-form", "Ta-form", "Mashita", "Nai-form",
      "Masen", "Nakatta", "Potential", "Passive", "Causative", "Imperative",
      "Volitional", "Conditional", "Tara-form">>

C28_TableConsistency ==
    (Called("generateConjugations") /\ call.verbType \in FourVerbTypes) =>
        /\ [n \in 1..Len(ret) |-> ret[n].form] = FormNames
        /\ TextOf(ret, "Tara-form") = TextOf(ret, "Ta-form") \o <<"ra">>
        /\ endsWith(TextOf(ret, "Masu"), <<"ma", "su">>)
        /\ LET X == Without(TextOf(ret, "Masu"), 2)
           IN  /\ TextOf(ret, "Mashita") = X \o <<"ma", "shi", "ta">>
               /\ TextOf(ret, "Masen") = X \o <<"ma", "se", "n">>
        /\ endsWith(TextOf(ret, "Nai-form"), <<"na", "i">>)
        /\ LET Y == Without(TextOf(ret, "Nai-form"), 2)
           IN  TextOf(ret, "Nakatta") = Y \o <<"na", "ka", "xtsu", "ta">>

(* The kuru table, whose polite stem "ki" and negative stem "ko" differ. *)
C28_Witness ==
    /\ GeneratedAs("kuru")
    /\ TextOf(ret, "Masen") = <<"ki", "ma", "se", "n">>
    /\ TextOf(ret, "Nakatta") = <<"ko", "na", "ka", "xtsu", "ta">>
    /\ TextOf(ret, "Tara-form") = <<"ki", "ta", "ra">>


(***************************************************************************)
(* C29.  useUserRole under refetch: once the cleanup of the effect that    *)
(* started a fetch has run (refetch() called or the component unmounted),  *)
(* that fetch makes no further state update, so the hook's role, status    *)
(* and isLoading are those of the fetch started last: while the fetch      *)
(* started last is still waiting, isLoading stays true.                    *)
(***************************************************************************)
C29_NoUpdateAfterCleanup ==
    /\ ~lastUpdate.afterCleanup
    /\ (mounted /\ fetches[Len(fetches)].pc # "done") => hookState.isLoading


(***************************************************************************)
(* C30.  Rate limiter state invariant: for every maxRequests >= 0 and      *)
(* after any sequence of check, reset and clock steps, every stored entry  *)
(* has 1 <= count <= maxRequests, the number of check(id) calls that       *)
(* returned true within one window never exceeds maxRequests, and a check  *)
(* that returns false leaves the whole Map as it was.                      *)
(***************************************************************************)
C30_TrackerInvariant ==
    /\ \A id \in DOMAIN tracker :
          /\ 1 <= tracker[id].count
          /\ tracker[id].count <= maxRequests
    /\ \A id \in DOMAIN calls : calls[id].allowed <= maxRequests
    /\ (Called("check") /\ ret = FALSE) => tracker = call.before

====
